---- MODULE Spec2Model ----
(***************************************************************************)
(* Match-outcome prediction engine of kick-mcsr-bot: the prediction scorer *)
(* (predictScore.ts), the trained-model scorer (predictModel.ts), the       *)
(* model artifact store (predictModelStore.ts), feature extraction          *)
(* (predictFeatures.ts) and backtest sample preparation                     *)
(* (predictBacktest.ts).                                                    *)
(*                                                                          *)
(* Numbers.  The code computes in IEEE doubles; the model computes in exact *)
(* integers over fixed grids, so that every sum, product and clamp below is *)
(* exact on the values the model draws:                                     *)
(*   win rates            in twentieths          (0.75 is 15)               *)
(*   ratings, rating deltas  in rating points                               *)
(*   time                 in ticks of 1/20 of 14 days (7 days is 10 ticks)  *)
(*   heuristic form score in 1/12000                                        *)
(*   model feature values in 1/1200, weights/intercept/calibration in 1/10  *)
(*   probabilities        in millionths                                     *)
(*   confidence           in 1/ConfScale                                    *)
(* Math.exp and Math.log are tabulated (SigmoidTable, LnTable) and          *)
(* interpolated linearly between the table points.                          *)
(***************************************************************************)
EXTENDS Integers, Sequences, FiniteSets, TLC

(***************************************************************************)
(* Optional values: undefined / null is the empty tuple.                    *)
(***************************************************************************)
None == <<>>

Some(v) == <<v>>

Has(o) == o # <<>>

Val(o) == o[1]

\* a ?? b
OrElse(o, d) == IF Has(o) THEN Val(o) ELSE d

Min2(a, b) == IF a <= b THEN a ELSE b

Max2(a, b) == IF a >= b THEN a ELSE b

Abs(x) == IF x < 0 THEN -x ELSE x

\* Math.min(max, Math.max(min, value))
clamp(value, min, max) == Min2(max, Max2(min, value))

(***************************************************************************)
(* Scales (units of the integer grids, not values of the program).          *)
(***************************************************************************)
\* probabilities are counted in millionths
ProbScale == 1000 * 1000

\* win rates are counted in twentieths
RateScale == 2 * 10

\* heuristic form scores are counted in 1/12000
FormScale == 12 * 1000

\* model feature values are counted in 1/1200
FeatScale == 12 * 100

\* weights, intercept and calibration coefficients are counted in tenths
WeightScale == 2 * 5

\* const sevenDaysMs = 7 * 24 * 60 * 60 * 1000, in ticks of 1/20 of 14 days
sevenDaysMs == 10

\* every targetSample the model draws divides 60
TargetLcm == 3 * 4 * 5

\* confidence is counted in 1/ConfScale
ConfScale == 100 * TargetLcm * (sevenDaysMs * 2) * 100

(***************************************************************************)
(* Math.exp, as 1/(1+exp(-x)) tabulated at x = k/4, in millionths.          *)
(***************************************************************************)
SigmoidTable ==
  << 500000, 562177, 622459, 679179, 731059, 777300, 817574, 851953,
     880797, 904651, 924142, 939913, 952574, 962673, 970688, 977023,
     982014, 985936, 989013, 991423, 993307, 994780, 995930, 996827,
     997527, 998073, 998499, 998830, 999089, 999290, 999447, 999569,
     999665, 999739, 999797, 999842, 999877, 999904, 999925, 999942,
     999955, 999965, 999972, 999979, 999983, 999987, 999990, 999992,
     999994, 999995, 999996, 999997, 999998, 999998, 999999, 999999,
     999999, 999999, 999999, 1000000 >>

\* table entry k (0-based), saturating at 1
SigmoidAt(k) == IF k + 1 >= Len(SigmoidTable) THEN ProbScale ELSE SigmoidTable[k + 1]

\* 1/(1+exp(-n/d)) for n >= 0, d > 0
SigmoidPos(n, d) ==
  LET k == (4 * n) \div d
      r == (4 * n) % d
  IN  IF k + 1 >= Len(SigmoidTable) THEN ProbScale
      ELSE SigmoidAt(k) + ((SigmoidAt(k + 1) - SigmoidAt(k)) * r) \div d

\* sigmoid(n/d), predictModel.ts sigmoid; z/(1+z) for negative arguments
sigmoid(n, d) == IF n >= 0 THEN SigmoidPos(n, d) ELSE ProbScale - SigmoidPos(-n, d)

\* Math.log(p/(1-p)) in thousandths for p in millionths, p >= 1/2: the inverse of the table
LogitPos(p) ==
  LET ks == {k \in 0..(Len(SigmoidTable) - 2) : SigmoidAt(k) <= p /\ p < SigmoidAt(k + 1)}
  IN  IF ks = {} THEN 250 * (Len(SigmoidTable) - 1)
      ELSE LET k == CHOOSE k \in ks : TRUE
           IN  250 * k + ((p - SigmoidAt(k)) * 250) \div (SigmoidAt(k + 1) - SigmoidAt(k))

\* safeLogit: clamp to [1e-6, 1 - 1e-6], then log(p / (1 - p)); in thousandths
safeLogit(probability) ==
  LET p == clamp(probability, 1, ProbScale - 1)
  IN  IF 2 * p >= ProbScale THEN LogitPos(p) ELSE -LogitPos(ProbScale - p)

\* Math.log(n) in thousandths, n in 1..12
LnTable == << 0, 693, 1099, 1386, 1609, 1792, 1946, 2079, 2197, 2303, 2398, 2485 >>

Ln(n) == LnTable[clamp(n, 1, Len(LnTable))]

(***************************************************************************)
(* PlayerFeatureStats (predictFeatures.ts), the fields the scorers read:    *)
(*   [sample, winRate, recencyWinRate?, totalEloDelta, avgEloDelta?,        *)
(*    avgOpponentElo?, streak: [current, best], oldestMatchAt?]             *)
(* Optional fields are None or Some(value).                                 *)
(***************************************************************************)
DEFAULT_TARGET_SAMPLE == 10

\* a.recencyWinRate ?? a.winRate, in twentieths
RecencyOrWinRate(p) == OrElse(p.recencyWinRate, p.winRate)

\* avgEloDelta !== undefined ? avgEloDelta : sample > 0 ? totalEloDelta / sample : 0,
\* as the fraction <<numerator, denominator>>
FormAvgEloDelta(p) ==
  IF Has(p.avgEloDelta) THEN <<Val(p.avgEloDelta), 1>>
  ELSE IF p.sample > 0 THEN <<p.totalEloDelta, p.sample>>
  ELSE <<0, 1>>

\* computeFormScore with player.winRate in place of the recency win rate
computeFormScoreNoRecency(player) ==
  LET winRate == clamp(player.winRate, 0, RateScale)
      winComponent == ((2 * winRate - RateScale) * 11 * FormScale) \div (2 * RateScale * 10)
      avgOpponentElo == OrElse(player.avgOpponentElo, 1500)
      oppComponent == (clamp(avgOpponentElo - 1500, -400, 400) * FormScale) \div 800
      avg == FormAvgEloDelta(player)
      eloComponent == clamp((avg[1] * FormScale) \div (30 * avg[2]),
                            -(FormScale \div 2), FormScale \div 2)
      streakComponent == (clamp(player.streak.current, 0, 6) * 3 * FormScale) \div 60
  IN  winComponent + oppComponent + eloComponent + streakComponent

\* computeFormScore, in 1/FormScale
computeFormScore(player) ==
  LET winRate == clamp(RecencyOrWinRate(player), 0, RateScale)
      \* (winRate - 0.5) * 1.1
      winComponent == ((2 * winRate - RateScale) * 11 * FormScale) \div (2 * RateScale * 10)
      avgOpponentElo == OrElse(player.avgOpponentElo, 1500)
      \* clamp((avgOpponentElo - 1500) / 400, -1, 1) * 0.5
      oppComponent == (clamp(avgOpponentElo - 1500, -400, 400) * FormScale) \div 800
      avg == FormAvgEloDelta(player)
      \* clamp(avgEloDelta / 15, -1, 1) * 0.5
      eloComponent == clamp((avg[1] * FormScale) \div (30 * avg[2]),
                            -(FormScale \div 2), FormScale \div 2)
      \* clamp(streak.current / 6, 0, 1) * 0.3
      streakComponent == (clamp(player.streak.current, 0, 6) * 3 * FormScale) \div 60
  IN  winComponent + oppComponent + eloComponent + streakComponent

\* probFromDelta: 1 / (1 + exp(-k * delta)) with k = 1.2; delta in 1/FormScale
probFromDelta(delta) == sigmoid(delta, (FormScale * 10) \div 12)

\* the probabilityForA callback of predictOutcomeHeuristic
HeuristicProbabilityA(playerA, playerB) ==
  LET scoreA == computeFormScore(playerA)
      scoreB == computeFormScore(playerB)
      delta == scoreA - scoreB
  IN  clamp(probFromDelta(delta), ProbScale \div 20, (ProbScale * 19) \div 20)

\* computeRecencyFactor with the floor of 0.35 left out
computeRecencyFactorNoFloor(ageMs) ==
  LET scaled == sevenDaysMs * 2 - ageMs
  IN  clamp(scaled, 0, sevenDaysMs * 2)

\* computeRecencyFactor, in twentieths: 1 - ageMs / (sevenDaysMs * 2), clamped to [0.35, 1]
computeRecencyFactor(ageMs) ==
  LET scaled == sevenDaysMs * 2 - ageMs
  IN  clamp(scaled, (35 * sevenDaysMs * 2) \div 100, sevenDaysMs * 2)

\* the larger sample taken in place of the smaller
MinSampleAsMax(a, b) == Max2(a.sample, b.sample)

\* const minSample = Math.min(a.sample, b.sample)
MinSample(a, b) == Min2(a.sample, b.sample)

\* clamp(minSample / targetSample, 0, 1), in 1/TargetLcm
SampleFactor(minSample, targetSample) ==
  clamp(minSample, 0, targetSample) * (TargetLcm \div targetSample)

\* const ageMs = Math.max(0, anchorMs - oldest), oldest the smaller oldestMatchAt ?? anchorMs
AgeMs(a, b, anchorMs) ==
  LET oldest == Min2(OrElse(a.oldestMatchAt, anchorMs), OrElse(b.oldestMatchAt, anchorMs))
  IN  Max2(0, anchorMs - oldest)

\* 0.35 + blended * 0.65: computeConfidence before its final clamp, in 1/ConfScale
ConfidenceRaw(a, b, targetSample, anchorMs) ==
  LET sampleFactor == SampleFactor(MinSample(a, b), targetSample)
      recencyFactor == computeRecencyFactor(AgeMs(a, b, anchorMs))
      winRateGap == Abs(RecencyOrWinRate(a) - RecencyOrWinRate(b))
      \* 0.6 + 0.4 * clamp(winRateGap * 2, 0, 1), in hundredths
      varianceFactor == 60 + 2 * clamp(winRateGap * 2, 0, RateScale)
      blended == sampleFactor * recencyFactor * varianceFactor
  IN  35 * (ConfScale \div 100) + blended * 65

\* the cap of the final clamp, 0.95
ConfidenceCap == (ConfScale * 95) \div 100

\* the floor of the final clamp, 0.1
ConfidenceFloor == ConfScale \div 10

\* the final clamp of computeConfidence left out
ClampConfidenceNone(raw) == raw

\* return clamp(0.35 + blended * 0.65, 0.1, 0.95)
ClampConfidence(raw) == clamp(raw, ConfidenceFloor, ConfidenceCap)

\* computeConfidence, in 1/ConfScale
computeConfidence(a, b, targetSample, anchorMs) ==
  ClampConfidence(ConfidenceRaw(a, b, targetSample, anchorMs))

\* value.toFixed(1) of the fraction n/d, in tenths
ToFixed1(n, d) == (20 * n + d) \div (2 * d)

\* a.avgEloDelta ?? (a.sample ? a.totalEloDelta / a.sample : undefined), as a fraction
FactorAvgEloDelta(p) ==
  IF Has(p.avgEloDelta) THEN Some(<<Val(p.avgEloDelta), 1>>)
  ELSE IF p.sample # 0 THEN Some(<<p.totalEloDelta, p.sample>>)
  ELSE None

\* formatPercent, in tenths of a percent
formatPercent(value) == (clamp(value, 0, RateScale) * 1000) \div RateScale

\* deriveFactors with the opponent gap compared by > in place of >=
deriveFactorsStrictGap(a, b) ==
  LET winA == RecencyOrWinRate(a)
      winB == RecencyOrWinRate(b)
      f1 == IF 20 * Abs(winA - winB) >= RateScale
            THEN <<[kind |-> "recency", x |-> formatPercent(winA), y |-> formatPercent(winB)]>>
            ELSE <<>>
      f2 == IF Has(a.avgOpponentElo) /\ Has(b.avgOpponentElo)
               /\ Abs(Val(a.avgOpponentElo) - Val(b.avgOpponentElo)) >  30
            THEN <<[kind |-> "opponent",
                    x |-> Max2(Val(a.avgOpponentElo), Val(b.avgOpponentElo)),
                    y |-> Min2(Val(a.avgOpponentElo), Val(b.avgOpponentElo))]>>
            ELSE <<>>
      eloA == FactorAvgEloDelta(a)
      eloB == FactorAvgEloDelta(b)
      f3 == IF Has(eloA) /\ Has(eloB)
            THEN LET na == Val(eloA)[1]
                     da == Val(eloA)[2]
                     nb == Val(eloB)[1]
                     db == Val(eloB)[2]
                 IN  IF Abs(na * db - nb * da) >= 5 * da * db
                     THEN IF na * db > nb * da
                          THEN <<[kind |-> "momentum", x |-> ToFixed1(na, da), y |-> ToFixed1(nb, db)]>>
                          ELSE <<[kind |-> "momentum", x |-> ToFixed1(nb, db), y |-> ToFixed1(na, da)]>>
                     ELSE <<>>
            ELSE <<>>
      f4 == IF a.streak.current > b.streak.current + 1
            THEN <<[kind |-> "streak", x |-> a.streak.current, y |-> 0]>>
            ELSE IF b.streak.current > a.streak.current + 1
            THEN <<[kind |-> "streak", x |-> b.streak.current, y |-> 0]>>
            ELSE <<>>
  IN  SubSeq(f1 \o f2 \o f3 \o f4, 1, Min2(4, Len(f1 \o f2 \o f3 \o f4)))

\* deriveFactors: the factor strings, as records of their kind and their two numbers
deriveFactors(a, b) ==
  LET winA == RecencyOrWinRate(a)
      winB == RecencyOrWinRate(b)
      f1 == IF 20 * Abs(winA - winB) >= RateScale
            THEN <<[kind |-> "recency", x |-> formatPercent(winA), y |-> formatPercent(winB)]>>
            ELSE <<>>
      f2 == IF Has(a.avgOpponentElo) /\ Has(b.avgOpponentElo)
               /\ Abs(Val(a.avgOpponentElo) - Val(b.avgOpponentElo)) >= 30
            THEN <<[kind |-> "opponent",
                    x |-> Max2(Val(a.avgOpponentElo), Val(b.avgOpponentElo)),
                    y |-> Min2(Val(a.avgOpponentElo), Val(b.avgOpponentElo))]>>
            ELSE <<>>
      eloA == FactorAvgEloDelta(a)
      eloB == FactorAvgEloDelta(b)
      f3 == IF Has(eloA) /\ Has(eloB)
            THEN LET na == Val(eloA)[1]
                     da == Val(eloA)[2]
                     nb == Val(eloB)[1]
                     db == Val(eloB)[2]
                 IN  IF Abs(na * db - nb * da) >= 5 * da * db
                     THEN IF na * db > nb * da
                          THEN <<[kind |-> "momentum", x |-> ToFixed1(na, da), y |-> ToFixed1(nb, db)]>>
                          ELSE <<[kind |-> "momentum", x |-> ToFixed1(nb, db), y |-> ToFixed1(na, da)]>>
                     ELSE <<>>
            ELSE <<>>
      f4 == IF a.streak.current > b.streak.current + 1
            THEN <<[kind |-> "streak", x |-> a.streak.current, y |-> 0]>>
            ELSE IF b.streak.current > a.streak.current + 1
            THEN <<[kind |-> "streak", x |-> b.streak.current, y |-> 0]>>
            ELSE <<>>
  IN  SubSeq(f1 \o f2 \o f3 \o f4, 1, Min2(4, Len(f1 \o f2 \o f3 \o f4)))

(***************************************************************************)
(* predictModel.ts: the trained scorer.                                     *)
(* A PredictModelArtifact is [features (a sequence of names), intercept,    *)
(* weights (a function on the names of features), calibration (None or      *)
(* Some([a, b]))]; version, createdAt and training are not read by the      *)
(* scorer and are left out.                                                 *)
(***************************************************************************)
featureNames ==
  << "winrate_delta", "recency_winrate_delta", "avg_elo_delta", "avg_opponent_elo_delta",
     "current_streak_delta", "best_streak_delta", "sample_log_ratio" >>

FeatureNameSet == {featureNames[i] : i \in 1..Len(featureNames)}

\* clamp(player.winRate ?? 0.5, 0, 1)
safeWinRate(player) == clamp(player.winRate, 0, RateScale)

\* clamp(player.recencyWinRate ?? player.winRate ?? 0.5, 0, 1)
safeRecencyWinRate(player) == clamp(RecencyOrWinRate(player), 0, RateScale)

\* safeAvgEloDelta, as a fraction
safeAvgEloDelta(player) ==
  IF Has(player.avgEloDelta) THEN <<Val(player.avgEloDelta), 1>>
  ELSE IF player.sample > 0 THEN <<player.totalEloDelta, player.sample>>
  ELSE <<0, 1>>

\* buildFeatureDeltaVector, in 1/FeatScale
buildFeatureDeltaVector(playerA, playerB) ==
  LET avgA == safeAvgEloDelta(playerA)
      avgB == safeAvgEloDelta(playerB)
      avgOpponentEloA == OrElse(playerA.avgOpponentElo, 1500)
      avgOpponentEloB == OrElse(playerB.avgOpponentElo, 1500)
      \* Math.max(1, player.sample || 1)
      sampleA == Max2(1, IF playerA.sample = 0 THEN 1 ELSE playerA.sample)
      sampleB == Max2(1, IF playerB.sample = 0 THEN 1 ELSE playerB.sample)
  IN  [ winrate_delta |->
          ((safeWinRate(playerA) - safeWinRate(playerB)) * FeatScale) \div RateScale,
        recency_winrate_delta |->
          ((safeRecencyWinRate(playerA) - safeRecencyWinRate(playerB)) * FeatScale) \div RateScale,
        avg_elo_delta |->
          ((avgA[1] * avgB[2] - avgB[1] * avgA[2]) * FeatScale) \div (20 * avgA[2] * avgB[2]),
        avg_opponent_elo_delta |-> ((avgOpponentEloA - avgOpponentEloB) * FeatScale) \div 400,
        current_streak_delta |->
          ((playerA.streak.current - playerB.streak.current) * FeatScale) \div 8,
        best_streak_delta |-> ((playerA.streak.best - playerB.streak.best) * FeatScale) \div 12,
        sample_log_ratio |-> ((Ln(sampleA) - Ln(sampleB)) * FeatScale) \div 1000 ]

\* the loop of scoreModelProbabilityA over model.features[i..], in 1/(WeightScale * FeatScale)
RECURSIVE WeightedSum(_, _, _)
WeightedSum(model, features, i) ==
  IF i > Len(model.features) THEN 0
  ELSE LET feature == model.features[i]
       IN  (IF feature \in DOMAIN model.weights /\ feature \in FeatureNameSet
            THEN model.weights[feature] * features[feature]
            ELSE 0)
           + WeightedSum(model, features, i + 1)

\* scoreModelProbabilityA, in millionths
scoreModelProbabilityA(model, playerA, playerB) ==
  LET features == buildFeatureDeltaVector(playerA, playerB)
      score == model.intercept * FeatScale + WeightedSum(model, features, 1)
      raw == sigmoid(score, WeightScale * FeatScale)
      probability ==
        IF Has(model.calibration)
        THEN LET logit == safeLogit(raw)
                 cal == Val(model.calibration)
             IN  sigmoid(cal.a * logit + cal.b * 1000, WeightScale * 1000)
        ELSE raw
  IN  clamp(probability, 1, ProbScale - 1)

(***************************************************************************)
(* predictScore.ts: predictOutcome.  A PredictionInput is                   *)
(* [playerA, playerB, targetSample, anchorMs], each None or Some(value).    *)
(* A scorer is None (the heuristic callback) or Some(model) (the callback   *)
(* that closes over the artifact getPredictModel returned).                 *)
(***************************************************************************)
\* probabilityForA(playerA, playerB)
probabilityForA(scorer, playerA, playerB) ==
  IF Has(scorer) THEN scoreModelProbabilityA(Val(scorer), playerA, playerB)
  ELSE HeuristicProbabilityA(playerA, playerB)

\* winner chosen with > in place of >=
WinnerOfStrict(probabilityA) == IF 2 * probabilityA > ProbScale THEN "A" ELSE "B"

\* const winner = probabilityA >= 0.5 ? 'A' : 'B'
WinnerOf(probabilityA) == IF 2 * probabilityA >= ProbScale THEN "A" ELSE "B"

\* the anchor taken from the clock whatever the input says
AnchorOfClock(input, clock) == clock

\* const anchor = input.anchorMs ?? DEFAULT_ANCHOR_MS(); clock is Date.now()
AnchorOf(input, clock) == OrElse(input.anchorMs, clock)

\* const targetSample = Math.max(1, input.targetSample ?? DEFAULT_TARGET_SAMPLE)
TargetSampleOf(input) == Max2(1, OrElse(input.targetSample, DEFAULT_TARGET_SAMPLE))

\* predictOutcomeWithProbability taking the callback's probability as it comes
predictOutcomeWithProbabilityAsScored(input, scorer, clock) ==
  LET targetSample == TargetSampleOf(input)
      anchor == AnchorOf(input, clock)
  IN  IF ~Has(input.playerA) \/ ~Has(input.playerB) THEN None
      ELSE LET playerA == Val(input.playerA)
               playerB == Val(input.playerB)
               probabilityA == probabilityForA(scorer, playerA, playerB)
               probabilityB == ProbScale - probabilityA
               winner == WinnerOf(probabilityA)
               probability == IF winner = "A" THEN probabilityA ELSE probabilityB
           IN  Some([ winner |-> winner,
                      probability |-> probability,
                      confidence |-> computeConfidence(playerA, playerB, targetSample, anchor),
                      factors |-> deriveFactors(playerA, playerB),
                      probabilityA |-> probabilityA,
                      probabilityB |-> probabilityB ])

\* predictOutcomeWithProbability; clock is Date.now()
predictOutcomeWithProbability(input, scorer, clock) ==
  LET targetSample == TargetSampleOf(input)
      anchor == AnchorOf(input, clock)
  IN  IF ~Has(input.playerA) \/ ~Has(input.playerB) THEN None
      ELSE LET playerA == Val(input.playerA)
               playerB == Val(input.playerB)
               probabilityA ==
                 clamp(probabilityForA(scorer, playerA, playerB),
                       ProbScale \div 20, (ProbScale * 19) \div 20)
               probabilityB == ProbScale - probabilityA
               winner == WinnerOf(probabilityA)
               probability == IF winner = "A" THEN probabilityA ELSE probabilityB
           IN  Some([ winner |-> winner,
                      probability |-> probability,
                      confidence |-> computeConfidence(playerA, playerB, targetSample, anchor),
                      factors |-> deriveFactors(playerA, playerB),
                      probabilityA |-> probabilityA,
                      probabilityB |-> probabilityB ])

\* predictOutcomeHeuristic
predictOutcomeHeuristic(input, clock) == predictOutcomeWithProbability(input, None, clock)

(***************************************************************************)
(* predictModelStore.ts.                                                    *)
(* A file is [kind: "missing" | "garbage" | "json", ...]; a "json" file     *)
(* carries what JSON.parse returns, reduced to what validateModel tests:    *)
(*   isObject         the value is a non-null object                        *)
(*   intercept        Some(n) if a finite number, None otherwise            *)
(*   featuresIsArray  Array.isArray(obj.features)                           *)
(*   features         the entries, each [str (typeof is string), text]      *)
(*   hasWeights       obj.weights is a non-null object                      *)
(*   weights          name -> Some(n) if a finite number, None otherwise    *)
(*   calibration      None if absent or no object, else Some([a, b]) with   *)
(*                    a, b Some(n) if a finite number, None otherwise       *)
(***************************************************************************)
\* String.prototype.trim on the strings the model draws
TrimTable ==
  " " :> "" @@ " alt.json " :> "alt.json" @@ " winrate_delta " :> "winrate_delta"

trim(s) == IF s \in DOMAIN TrimTable THEN TrimTable[s] ELSE s

\* const DEFAULT_MODEL_PATH = path.resolve('data', 'predict-model.json')
DEFAULT_MODEL_PATH == "/cwd/data/predict-model.json"

\* path.resolve on the strings the model draws
PathTable ==
  "alt.json" :> "/cwd/alt.json" @@ "./alt.json" :> "/cwd/alt.json"
  @@ "data/predict-model.json" :> DEFAULT_MODEL_PATH

pathResolve(s) == IF s \in DOMAIN PathTable THEN PathTable[s] ELSE s

\* resolveModelPath; env is process.env.MCSR_PREDICT_MODEL_PATH, None or Some(string)
resolveModelPath(env) ==
  LET configured == IF Has(env) THEN trim(Val(env)) ELSE ""
  IN  IF configured # "" THEN pathResolve(configured) ELSE DEFAULT_MODEL_PATH

\* validateCalibration
validateCalibration(value) ==
  IF ~Has(value) THEN None
  ELSE IF ~Has(Val(value).a) \/ ~Has(Val(value).b) THEN None
  ELSE Some([a |-> Val(Val(value).a), b |-> Val(Val(value).b)])

\* weights[feature], None when it is no finite number
WeightOf(weights, feature) == IF feature \in DOMAIN weights THEN weights[feature] ELSE None

\* the features of validateModel: map(trim), filter(non-empty), filter(validFeatures.has)
FilterFeatures(entries) ==
  LET mapped == [i \in 1..Len(entries) |-> IF entries[i].str THEN trim(entries[i].text) ELSE ""]
      nonEmpty == SelectSeq(mapped, LAMBDA v : v # "")
  IN  SelectSeq(nonEmpty, LAMBDA v : v \in FeatureNameSet)

\* validateModel with a missing weight taken as zero instead of rejected
validateModelZeroFill(input) ==
  IF ~input.isObject THEN None
  ELSE IF ~Has(input.intercept) THEN None
  ELSE IF ~input.featuresIsArray \/ Len(input.features) = 0 THEN None
  ELSE IF ~input.hasWeights THEN None
  ELSE LET features == FilterFeatures(input.features)
       IN  IF Len(features) = 0 THEN None
           ELSE Some([ features |-> features,
                       intercept |-> Val(input.intercept),
                       weights |-> [f \in {features[i] : i \in 1..Len(features)} |->
                                      OrElse(WeightOf(input.weights, f), 0)],
                       calibration |-> validateCalibration(input.calibration) ])

\* validateModel
validateModel(input) ==
  IF ~input.isObject THEN None
  ELSE IF ~Has(input.intercept) THEN None
  ELSE IF ~input.featuresIsArray \/ Len(input.features) = 0 THEN None
  ELSE IF ~input.hasWeights THEN None
  ELSE LET features == FilterFeatures(input.features)
       IN  IF Len(features) = 0 THEN None
           ELSE IF \E i \in 1..Len(features) : ~Has(WeightOf(input.weights, features[i]))
           THEN None
           ELSE Some([ features |-> features,
                       intercept |-> Val(input.intercept),
                       weights |-> [f \in {features[i] : i \in 1..Len(features)} |->
                                      Val(WeightOf(input.weights, f))],
                       calibration |-> validateCalibration(input.calibration) ])

\* loadModelFromDisk; files maps each path to its file
loadModelFromDisk(files, modelPath) ==
  LET file == files[modelPath]
  IN  IF file.kind = "missing" THEN None
      \* JSON.parse throws: caught, logged, null
      ELSE IF file.kind = "garbage" THEN None
      ELSE validateModel(file)

\* the test of getPredictModel written on truthiness: a cached null does not count
CacheHitTruthy(cModel, cPath, modelPath) ==
  Has(cModel) /\ Has(Val(cModel)) /\ cPath = Some(modelPath)

\* cachedModel !== undefined && cachedPath === modelPath;
\* cachedModel is None (undefined), Some(None) (null) or Some(Some(artifact))
CacheHit(cModel, cPath, modelPath) == Has(cModel) /\ cPath = Some(modelPath)

\* getPredictModel: what it returns, the cache it leaves, and the path it read (None on a hit)
getPredictModel(env, cModel, cPath, files) ==
  LET modelPath == resolveModelPath(env)
  IN  IF CacheHit(cModel, cPath, modelPath)
      THEN [ model |-> Val(cModel), cachedModel |-> cModel, cachedPath |-> cPath,
             path |-> modelPath, read |-> FALSE ]
      ELSE LET loaded == loadModelFromDisk(files, modelPath)
           IN  [ model |-> loaded, cachedModel |-> Some(loaded), cachedPath |-> Some(modelPath),
                 path |-> modelPath, read |-> TRUE ]

\* predictOutcome scoring with the heuristic whatever the store returned
predictOutcomeIgnoreModel(input, env, cModel, cPath, files, clock) ==
  [ store |-> getPredictModel(env, cModel, cPath, files),
    lookups |-> 1,
    scorer |-> "heuristic",
    outcome |-> predictOutcomeHeuristic(input, clock) ]

\* predictOutcome: the store call it makes (once, first), the scorer it takes and what it returns
predictOutcome(input, env, cModel, cPath, files, clock) ==
  LET g == getPredictModel(env, cModel, cPath, files)
  IN  IF Has(g.model)
      THEN [ store |-> g, lookups |-> 1, scorer |-> "trained",
             outcome |-> predictOutcomeWithProbability(input, g.model, clock) ]
      ELSE [ store |-> g, lookups |-> 1, scorer |-> "heuristic",
             outcome |-> predictOutcomeHeuristic(input, clock) ]

(***************************************************************************)
(* The values the model draws.                                              *)
(***************************************************************************)
\* the largest sample of a drawn PlayerFeatureStats
MaxSample == 3

\* the largest targetSample drawn
MaxTarget == 2

\* how far Date.now() advances
MaxTicks == 1

\* the anchor the callers pass: 28 days after tick 0
Anchor == 4 * sevenDaysMs

Paths == {DEFAULT_MODEL_PATH, "/cwd/alt.json"}

\* values of MCSR_PREDICT_MODEL_PATH: unset, blank, and two spellings of the same file
EnvValues == {None, Some(" "), Some("alt.json"), Some("./alt.json")}

NoWeights == <<>>

FileMissing ==
  [ kind |-> "missing", isObject |-> FALSE, intercept |-> None, featuresIsArray |-> FALSE,
    features |-> <<>>, hasWeights |-> FALSE, weights |-> NoWeights, calibration |-> None ]

\* a file that JSON.parse rejects
FileGarbage == [FileMissing EXCEPT !.kind = "garbage"]

\* JSON that is no object (null, a number, a string)
FileNotObject == [FileMissing EXCEPT !.kind = "json"]

\* a well-formed artifact without calibration
FileValid ==
  [ kind |-> "json", isObject |-> TRUE, intercept |-> Some(5), featuresIsArray |-> TRUE,
    features |-> << [str |-> TRUE, text |-> "winrate_delta"],
                    [str |-> TRUE, text |-> "recency_winrate_delta"],
                    [str |-> TRUE, text |-> "sample_log_ratio"] >>,
    hasWeights |-> TRUE,
    weights |-> ("winrate_delta" :> Some(20) @@ "recency_winrate_delta" :> Some(30)
                 @@ "sample_log_ratio" :> Some(1)),
    calibration |-> None ]

\* a well-formed artifact with calibration, one name padded with blanks
FileValidCalibrated ==
  [ FileValid EXCEPT
      !.intercept = Some(-2),
      !.features = << [str |-> TRUE, text |-> " winrate_delta "],
                      [str |-> TRUE, text |-> "current_streak_delta"] >>,
      !.weights = ("winrate_delta" :> Some(40) @@ "current_streak_delta" :> Some(-5)),
      !.calibration = Some([a |-> Some(12), b |-> Some(1)]) ]

\* intercept missing, null or a string
FileBadIntercept == [FileValid EXCEPT !.intercept = None]

\* features: []
FileNoFeatures == [FileValid EXCEPT !.features = <<>>]

\* features is no array
FileFeaturesNotArray == [FileValid EXCEPT !.featuresIsArray = FALSE]

\* weights missing
FileNoWeights == [FileValid EXCEPT !.hasWeights = FALSE, !.weights = NoWeights]

\* a declared canonical feature whose weight is missing
FileMissingWeight ==
  [FileValid EXCEPT !.weights = ("winrate_delta" :> Some(20) @@ "sample_log_ratio" :> Some(1))]

\* a declared canonical feature whose weight is a string
FileStringWeight ==
  [FileValid EXCEPT !.weights = ("winrate_delta" :> Some(20) @@ "recency_winrate_delta" :> None
                                 @@ "sample_log_ratio" :> Some(1))]

\* a known feature beside a name that is none of the 7, both with weights
FileUnknownFeature ==
  [ FileValid EXCEPT
      !.features = << [str |-> TRUE, text |-> "winrate_delta"],
                      [str |-> TRUE, text |-> "elo_gap"] >>,
      !.weights = ("winrate_delta" :> Some(20) @@ "elo_gap" :> Some(7)) ]

\* only names that are none of the 7, an entry that is no string, an empty name
FileOnlyUnknown ==
  [ FileValid EXCEPT
      !.features = << [str |-> TRUE, text |-> "elo_gap"], [str |-> FALSE, text |-> ""],
                      [str |-> TRUE, text |-> " "] >>,
      !.weights = ("elo_gap" :> Some(7)) ]

\* a calibration object whose b is no finite number
FileBadCalibration == [FileValid EXCEPT !.calibration = Some([a |-> Some(12), b |-> None])]

\* the files of the dispatch specification
FewFiles == {FileMissing, FileValid}

\* the files of the validation specification
AllFiles ==
  { FileMissing, FileGarbage, FileNotObject, FileValid, FileValidCalibrated, FileBadIntercept,
    FileNoFeatures, FileFeaturesNotArray, FileNoWeights, FileMissingWeight, FileStringWeight,
    FileUnknownFeature, FileOnlyUnknown, FileBadCalibration }

\* makeStats of predictScore.test.ts
makeStats ==
  [ sample |-> 10, winRate |-> 12, recencyWinRate |-> Some(12), totalEloDelta |-> 30,
    avgEloDelta |-> Some(3), avgOpponentElo |-> Some(1520),
    streak |-> [current |-> 2, best |-> 3], oldestMatchAt |-> Some(Anchor - 5) ]

\* the stronger form of the test
StatsStrong ==
  [ makeStats EXCEPT !.recencyWinRate = Some(15), !.avgOpponentElo = Some(1600),
                     !.streak = [current |-> 4, best |-> 5] ]

\* the weaker form; no recency rate, no average delta, no window age
StatsWeak ==
  [ makeStats EXCEPT !.sample = 4, !.winRate = 9, !.recencyWinRate = None,
                     !.totalEloDelta = -8, !.avgEloDelta = None, !.avgOpponentElo = Some(1500),
                     !.streak = [current |-> 1, best |-> 2], !.oldestMatchAt = None ]

MakeInput(a, b, t, anchor) ==
  [playerA |-> a, playerB |-> b, targetSample |-> t, anchorMs |-> anchor]

\* the inputs of the dispatch specification
FewInputs ==
  { MakeInput(Some(StatsStrong), Some(StatsWeak), None, Some(Anchor)),
    MakeInput(Some(StatsWeak), Some(StatsStrong), Some(2), Some(Anchor)),
    MakeInput(Some(StatsStrong), Some(StatsStrong), None, Some(Anchor)),
    MakeInput(Some(StatsStrong), Some(StatsWeak), None, None),
    MakeInput(None, Some(StatsStrong), None, Some(Anchor)),
    MakeInput(Some(StatsWeak), None, None, None) }

\* the input of the validation specification
OneInput == {MakeInput(Some(StatsStrong), Some(StatsWeak), None, Some(Anchor))}

(***************************************************************************)
(* State.                                                                   *)
(***************************************************************************)
VARIABLES
  files,        \* the disk: path -> file
  env,          \* process.env.MCSR_PREDICT_MODEL_PATH
  cachedModel,  \* None (undefined), Some(None) (null) or Some(Some(artifact))
  cachedPath,   \* None (null) or Some(path)
  now,          \* Date.now()
  lookup,       \* the latest getPredictModel call since the last clear, None if there is none
  loaded,       \* path -> what the first disk read of it since the last clear returned
  last,         \* the latest predictOutcome / predictOutcomeHeuristic call, None if none
  prev          \* the call before it

vars == <<files, env, cachedModel, cachedPath, now, lookup, loaded, last, prev>>

storeVars == <<files, env, cachedModel, cachedPath, lookup, loaded>>

NothingLoaded == [p \in Paths |-> None]

NoFiles == [p \in Paths |-> FileMissing]

Init ==
  /\ files = NoFiles
  /\ env = None
  /\ cachedModel = None
  /\ cachedPath = None
  /\ now = Anchor
  /\ lookup = None
  /\ loaded = NothingLoaded
  /\ last = None
  /\ prev = None

\* what a getPredictModel call g leaves behind, and what an observer of it saw: the caller,
\* the resolved path, whether the disk was read, the result, the file on disk at that time,
\* what the first read of the path since the last clear had returned, and the call before
StoreCalled(g, caller) ==
  /\ cachedModel' = g.cachedModel
  /\ cachedPath' = g.cachedPath
  /\ lookup' = Some([ by |-> caller, path |-> g.path, read |-> g.read, model |-> g.model,
                      file |-> files[g.path],
                      first |-> loaded[g.path],
                      before |-> IF Has(lookup)
                                 THEN Some([path |-> Val(lookup).path, model |-> Val(lookup).model])
                                 ELSE None ])
  /\ loaded' = IF g.read /\ ~Has(loaded[g.path])
               THEN [loaded EXCEPT ![g.path] = Some(g.model)]
               ELSE loaded

\* a caller other than predictOutcome calls getPredictModel
GetPredictModel ==
  /\ StoreCalled(getPredictModel(env, cachedModel, cachedPath, files), "getPredictModel")
  /\ UNCHANGED <<files, env, now, last, prev>>

\* clearPredictModelCache
ClearPredictModelCache ==
  /\ cachedModel' = None
  /\ cachedPath' = None
  /\ lookup' = None
  /\ loaded' = NothingLoaded
  /\ UNCHANGED <<files, env, now, last, prev>>

\* the trainer, or anyone, replaces or removes the file at a path
WriteFile(path, file) ==
  /\ files[path] # file
  /\ files' = [files EXCEPT ![path] = file]
  /\ UNCHANGED <<env, cachedModel, cachedPath, now, lookup, loaded, last, prev>>

\* MCSR_PREDICT_MODEL_PATH is set or unset
SetEnv(value) ==
  /\ env # value
  /\ env' = value
  /\ UNCHANGED <<files, cachedModel, cachedPath, now, lookup, loaded, last, prev>>

\* time passes
Tick ==
  /\ now < Anchor + MaxTicks
  /\ now' = now + 1
  /\ UNCHANGED <<storeVars, last, prev>>

\* what an observer of a predictOutcome call saw: the input, the clock, the number of store
\* calls, what the store returned, the scorer taken and the outcome
CallRecord(input, r) ==
  [ fn |-> "predictOutcome", input |-> input, at |-> now, lookups |-> r.lookups,
    stored |-> r.store.model, scorer |-> r.scorer, outcome |-> r.outcome ]

\* predictOutcome(input)
PredictOutcome(input) ==
  LET r == predictOutcome(input, env, cachedModel, cachedPath, files, now)
  IN  /\ StoreCalled(r.store, "predictOutcome")
      /\ prev' = last
      /\ last' = Some(CallRecord(input, r))
      /\ UNCHANGED <<files, env, now>>

\* predictOutcomeHeuristic(input)
PredictOutcomeHeuristic(input) ==
  /\ prev' = last
  /\ last' = Some([ fn |-> "predictOutcomeHeuristic", input |-> input, at |-> now,
                    lookups |-> 0, stored |-> None,
                    scorer |-> "heuristic", outcome |-> predictOutcomeHeuristic(input, now) ])
  /\ UNCHANGED <<storeVars, now>>

(***************************************************************************)
(* Dispatch: predictOutcome under every interleaving of other callers of    *)
(* the store, cache clears, writes of the artifact file and the clock.      *)
(***************************************************************************)
Next ==
  \/ GetPredictModel
  \/ ClearPredictModelCache
  \/ \E file \in FewFiles : WriteFile(DEFAULT_MODEL_PATH, file)
  \/ Tick
  \/ \E input \in FewInputs : PredictOutcome(input)

Spec == Init /\ [][Next]_vars

(***************************************************************************)
(* Cache: getPredictModel under every sequence of configured paths, file    *)
(* writes and cache clears.                                                 *)
(***************************************************************************)
CacheFiles == {FileMissing, FileValid, FileValidCalibrated}

NextCache ==
  \/ GetPredictModel
  \/ ClearPredictModelCache
  \/ \E path \in Paths, file \in CacheFiles : WriteFile(path, file)
  \/ \E value \in EnvValues : SetEnv(value)

SpecCache == Init /\ [][NextCache]_vars

(***************************************************************************)
(* Validation: every kind of artifact file at the default path.             *)
(***************************************************************************)
NextValidate ==
  \/ GetPredictModel
  \/ ClearPredictModelCache
  \/ \E file \in AllFiles : WriteFile(DEFAULT_MODEL_PATH, file)
  \/ \E input \in OneInput : PredictOutcome(input)

SpecValidate == Init /\ [][NextValidate]_vars

(***************************************************************************)
(* Confidence: predictOutcomeHeuristic applied to a drawn input and then to *)
(* the same input with the samples, or the oldest match times, changed.     *)
(***************************************************************************)
ConfStats(sample, rate, oldest) ==
  [makeStats EXCEPT !.sample = sample, !.recencyWinRate = rate, !.oldestMatchAt = oldest]

\* recency win rates of A and B: a gap of 3/20 (A falls back to winRate), a gap of 15/20
RatePairs == {<<None, Some(9)>>, <<Some(20), Some(5)>>}

\* oldestMatchAt of A: unset, in the future, and 6, 12, 13, 14 and 22 ticks before the anchor
OldestChoicesA ==
  {None, Some(Anchor + 2), Some(Anchor - 6), Some(Anchor - 12), Some(Anchor - 13),
   Some(Anchor - 14), Some(Anchor - 22)}

\* oldestMatchAt of B: unset, and 11 ticks before the anchor
OldestChoicesB == {None, Some(Anchor - 11)}

TargetChoices == {None} \cup {Some(t) : t \in 0..MaxTarget}

ConfInputs ==
  { MakeInput(Some(ConfStats(sa, rp[1], oa)), Some(ConfStats(sb, rp[2], ob)), t, Some(Anchor)) :
      sa \in 0..MaxSample, sb \in 0..MaxSample, rp \in RatePairs,
      oa \in OldestChoicesA, ob \in OldestChoicesB, t \in TargetChoices }

WithSamples(input, sa, sb) ==
  [ input EXCEPT !.playerA = Some([Val(input.playerA) EXCEPT !.sample = sa]),
                 !.playerB = Some([Val(input.playerB) EXCEPT !.sample = sb]) ]

WithOldest(input, oa) ==
  [input EXCEPT !.playerA = Some([Val(input.playerA) EXCEPT !.oldestMatchAt = oa])]

ConfFirst ==
  /\ ~Has(last)
  /\ \E input \in ConfInputs : PredictOutcomeHeuristic(input)

ConfVarySamples ==
  /\ Has(last) /\ ~Has(prev)
  /\ \E sa \in 0..MaxSample, sb \in 0..MaxSample :
       PredictOutcomeHeuristic(WithSamples(Val(last).input, sa, sb))

ConfVaryOldest ==
  /\ Has(last) /\ ~Has(prev)
  /\ \E oa \in OldestChoicesA : PredictOutcomeHeuristic(WithOldest(Val(last).input, oa))

NextConf == ConfFirst \/ ConfVarySamples \/ ConfVaryOldest

SpecConf == Init /\ [][NextConf]_vars

(***************************************************************************)
(* Claims.                                                                  *)
(***************************************************************************)
Outcome(call) == Val(Val(call).outcome)

HasOutcome(call) == Has(call) /\ Has(Val(call).outcome)

\* C1: every non-null result of predictOutcome has probabilityB = 1 - probabilityA, winner
\* 'A' exactly when probabilityA >= 0.5 (a tie goes to A) and 'B' otherwise, and probability
\* the winner's probability, the larger of probabilityA and probabilityB.
C1_WinnerAndProbabilities ==
  HasOutcome(last) =>
    LET o == Outcome(last)
    IN  /\ o.probabilityB = ProbScale - o.probabilityA
        /\ o.winner \in {"A", "B"}
        /\ o.winner = "A" <=> 2 * o.probabilityA >= ProbScale
        /\ o.probability = Max2(o.probabilityA, o.probabilityB)
        /\ o.probability = IF o.winner = "A" THEN o.probabilityA ELSE o.probabilityB

\* a tie: probabilityA is exactly 0.5 and the winner is A
C1_Witness ==
  /\ HasOutcome(last)
  /\ 2 * Outcome(last).probabilityA = ProbScale
  /\ Outcome(last).winner = "A"

\* C2: each predictOutcome call consults the store exactly once and scores with the trained
\* model if and only if the store returned an artifact, otherwise with the heuristic: its
\* outcome is the one the scorer for what the store returned computes.
C2_ScorerChosenOncePerCall ==
  (Has(last) /\ Val(last).fn = "predictOutcome") =>
    LET c == Val(last)
    IN  /\ c.lookups = 1
        /\ c.scorer = "trained" <=> Has(c.stored)
        /\ c.scorer = "heuristic" <=> ~Has(c.stored)
        /\ c.outcome = predictOutcomeWithProbability(c.input, c.stored, c.at)

\* two calls with the same input, the earlier scored by the heuristic, the later by the
\* trained model
C2_Witness ==
  /\ HasOutcome(last) /\ HasOutcome(prev)
  /\ Val(prev).input = Val(last).input
  /\ Val(prev).scorer = "heuristic"
  /\ Val(last).scorer = "trained"
  /\ Val(last).lookups = 1

\* two predictOutcome calls with the same input, the anchor given
SameInputTwice ==
  /\ Has(prev) /\ Has(last)
  /\ Val(prev).fn = "predictOutcome" /\ Val(last).fn = "predictOutcome"
  /\ Val(prev).input = Val(last).input
  /\ Has(Val(last).input.anchorMs)

\* C7 as claimed: two predictOutcome calls with identical input return identical outcomes.
C7_Original == SameInputTwice => Val(prev).outcome = Val(last).outcome

\* C7 as amended: two predictOutcome calls with identical input return identical outcomes
\* whenever the store returned the same artifact, or none, to both.
C7_SameInputSameArtifact ==
  (SameInputTwice /\ Val(prev).stored = Val(last).stored) =>
    Val(prev).outcome = Val(last).outcome

\* the same input scored twice by the same artifact at two different times
C7_Witness ==
  /\ SameInputTwice
  /\ HasOutcome(last)
  /\ Has(Val(last).stored)
  /\ Val(prev).stored = Val(last).stored
  /\ Val(prev).at # Val(last).at

\* the names an artifact file declares that are canonical feature names
DeclaredCanonical(file) ==
  { trim(file.features[i].text) : i \in {j \in 1..Len(file.features) : file.features[j].str} }
    \cap FeatureNameSet

\* the file is missing or unparsable, its intercept is no finite number, its feature list is
\* empty, or a declared canonical feature has no finite weight
FileIsDefective(file) ==
  \/ file.kind \in {"missing", "garbage"}
  \/ ~Has(file.intercept)
  \/ ~file.featuresIsArray
  \/ Len(file.features) = 0
  \/ \E f \in DeclaredCanonical(file) : ~Has(WeightOf(file.weights, f))

\* C3: getPredictModel returns no artifact, and predictOutcome scores with the heuristic,
\* whenever the file read is missing or unparsable, its intercept is not finite, its feature
\* list is empty or a declared canonical feature has no finite weight; every artifact
\* returned has a non-empty feature list and, for each listed feature, the finite weight
\* the file gives it (never a substitute), and the file's finite intercept.
C3_DefectiveArtifactRejected ==
  Has(lookup) =>
    LET l == Val(lookup)
    IN  /\ (l.read /\ FileIsDefective(l.file)) => ~Has(l.model)
        /\ (l.read /\ FileIsDefective(l.file) /\ l.by = "predictOutcome") =>
             /\ Val(last).scorer = "heuristic"
             /\ Val(last).outcome = predictOutcomeHeuristic(Val(last).input, Val(last).at)
        /\ Has(l.model) =>
             LET m == Val(l.model)
             IN  /\ Len(m.features) > 0
                 /\ \A i \in 1..Len(m.features) : m.features[i] \in DOMAIN m.weights
                 /\ l.read =>
                      /\ Has(l.file.intercept) /\ m.intercept = Val(l.file.intercept)
                      /\ \A i \in 1..Len(m.features) :
                           /\ Has(WeightOf(l.file.weights, m.features[i]))
                           /\ m.weights[m.features[i]] = Val(WeightOf(l.file.weights, m.features[i]))

\* predictOutcome read a file that declares a canonical feature without a weight, got no
\* artifact and scored with the heuristic
C3_Witness ==
  /\ Has(lookup) /\ HasOutcome(last)
  /\ Val(lookup).by = "predictOutcome"
  /\ Val(lookup).read
  /\ Val(lookup).file = FileMissingWeight
  /\ ~Has(Val(lookup).model)
  /\ Val(last).scorer = "heuristic"

\* the file's feature list holds a name that is none of the 7 canonical names
DeclaresUnknownName(file) ==
  /\ file.kind = "json" /\ file.isObject /\ file.featuresIsArray
  /\ \E i \in 1..Len(file.features) :
       /\ file.features[i].str
       /\ trim(file.features[i].text) # ""
       /\ trim(file.features[i].text) \notin FeatureNameSet

\* C4: an artifact whose feature list contains a name outside the 7 canonical names is
\* rejected as a whole: getPredictModel returns no artifact and predictOutcome uses the
\* heuristic.
C4_UnknownNameRejected ==
  (Has(lookup) /\ Val(lookup).read /\ DeclaresUnknownName(Val(lookup).file)) =>
    /\ ~Has(Val(lookup).model)
    /\ Val(lookup).by = "predictOutcome" => Val(last).scorer = "heuristic"

\* the file carries a calibration object whose a or b is no finite number
CarriesBadCalibration(file) ==
  /\ file.kind = "json" /\ file.isObject
  /\ Has(file.calibration)
  /\ (~Has(Val(file.calibration).a) \/ ~Has(Val(file.calibration).b))

\* C5: an artifact that carries a calibration object whose a or b is not a finite number is
\* rejected as a whole: getPredictModel returns no artifact and predictOutcome uses the
\* heuristic.
C5_BadCalibrationRejected ==
  (Has(lookup) /\ Val(lookup).read /\ CarriesBadCalibration(Val(lookup).file)) =>
    /\ ~Has(Val(lookup).model)
    /\ Val(lookup).by = "predictOutcome" => Val(last).scorer = "heuristic"

C8_ConfidenceInRange ==
  HasOutcome(last) =>
    /\ Outcome(last).confidence >= ConfidenceFloor
    /\ Outcome(last).confidence <= ConfidenceCap

\* a prediction whose confidence is held at the cap of 0.95
C8_Witness ==
  /\ HasOutcome(last)
  /\ Outcome(last).confidence = ConfidenceCap
  /\ LET i == Val(last).input
     IN  ConfidenceRaw(Val(i.playerA), Val(i.playerB), TargetSampleOf(i), Val(i.anchorMs))
           > ConfidenceCap

\* the smaller of the two samples of a call's input
MinOfSamples(call) ==
  Min2(Val(Val(call).input.playerA).sample, Val(Val(call).input.playerB).sample)

\* two predictions whose inputs differ at most in the two samples
SameButSamples ==
  /\ HasOutcome(prev) /\ HasOutcome(last)
  /\ WithSamples(Val(prev).input, 0, 0) = WithSamples(Val(last).input, 0, 0)

\* C9 as claimed: all else fixed, confidence strictly decreases whenever min(sampleA, sampleB)
\* decreases.
C9_Original ==
  (SameButSamples /\ MinOfSamples(last) < MinOfSamples(prev)) =>
    Outcome(last).confidence < Outcome(prev).confidence

\* C9 as amended: all else fixed, confidence never increases when min(sampleA, sampleB)
\* decreases, and it strictly decreases exactly when the smaller minimum is below
\* max(1, targetSample) and the resulting confidence is below the cap of 0.95.
C9_ConfidenceMonotoneInSample ==
  (SameButSamples /\ MinOfSamples(last) < MinOfSamples(prev)) =>
    /\ Outcome(last).confidence <= Outcome(prev).confidence
    /\ Outcome(last).confidence < Outcome(prev).confidence
         <=> /\ MinOfSamples(last) < TargetSampleOf(Val(last).input)
             /\ Outcome(last).confidence < ConfidenceCap

\* the smaller sample decreased below the target and the confidence strictly decreased
C9_Witness ==
  /\ SameButSamples
  /\ MinOfSamples(last) < MinOfSamples(prev)
  /\ MinOfSamples(last) < TargetSampleOf(Val(last).input)
  /\ Outcome(last).confidence < Outcome(prev).confidence

\* the age of the older window of a call's input
AgeOf(call) ==
  LET i == Val(call).input
  IN  AgeMs(Val(i.playerA), Val(i.playerB), Val(i.anchorMs))

\* two predictions whose inputs differ at most in the oldest match time of A
SameButOldest ==
  /\ HasOutcome(prev) /\ HasOutcome(last)
  /\ WithOldest(Val(prev).input, None) = WithOldest(Val(last).input, None)

FormRates == {None, Some(9), Some(15)}

\* avgOpponentElo: unset (1500 is used), 1500, 1600, and 1950 and 2000 (both clamped)
FormOpponents == {None, Some(1500), Some(1600), Some(1950), Some(2000)}

\* avgEloDelta: unset (totalEloDelta / sample = 3 is used), 3, and 16 and 20 (both clamped)
FormDeltas == {None, Some(3), Some(16), Some(20)}

\* streak.current: 1, 4, and 6 and 7 (both clamped)
FormStreaks == {1, 4, 6, 7}

FormStats(rate, opponent, delta, current) ==
  [ makeStats EXCEPT !.recencyWinRate = rate, !.avgOpponentElo = opponent,
                     !.avgEloDelta = delta, !.streak = [current |-> current, best |-> 7] ]

FormPlayers ==
  { FormStats(r, o, d, c) : r \in FormRates, o \in FormOpponents, d \in FormDeltas,
                            c \in FormStreaks }

FormInputs == { MakeInput(Some(a), Some(b), None, Some(Anchor)) : a \in FormPlayers, b \in FormPlayers }

FormFirst ==
  /\ ~Has(last)
  /\ \E input \in FormInputs : PredictOutcome(input)

NextForm == FormFirst

SpecForm == Init /\ [][NextForm]_vars

\* the four form components of a player as computeFormScore reads them, before clamping:
\* win rate in twentieths, opponent rating, rating delta as a fraction, current streak
FormWinRate(p) == RecencyOrWinRate(p)

FormOpponent(p) == OrElse(p.avgOpponentElo, 1500)

FormStreak(p) == p.streak.current

\* the rating delta n/d held to [-15, 15]
ClampedDelta(p) ==
  LET f == FormAvgEloDelta(p)
  IN  IF f[1] > 15 * f[2] THEN <<15, 1>> ELSE IF f[1] < -15 * f[2] THEN <<-15, 1>> ELSE f

\* A is at least as good as B in every form component
AtLeastAsGood(a, b) ==
  /\ FormWinRate(a) >= FormWinRate(b)
  /\ FormOpponent(a) >= FormOpponent(b)
  /\ FormAvgEloDelta(a)[1] * FormAvgEloDelta(b)[2] >= FormAvgEloDelta(b)[1] * FormAvgEloDelta(a)[2]
  /\ FormStreak(a) >= FormStreak(b)

\* A is strictly better than B in a component whose clamp does not hide the difference
StrictlyBetterUnclamped(a, b) ==
  \/ clamp(FormWinRate(a), 0, RateScale) > clamp(FormWinRate(b), 0, RateScale)
  \/ clamp(FormOpponent(a), 1100, 1900) > clamp(FormOpponent(b), 1100, 1900)
  \/ ClampedDelta(a)[1] * ClampedDelta(b)[2] > ClampedDelta(b)[1] * ClampedDelta(a)[2]
  \/ clamp(FormStreak(a), 0, 6) > clamp(FormStreak(b), 0, 6)

\* the scenario: 0.75 / 1600 / streak 4 against 0.45 / 1500 / streak 1
ScenarioInput ==
  MakeInput(Some(FormStats(Some(15), Some(1600), Some(3), 4)),
            Some(FormStats(Some(9), Some(1500), Some(3), 1)), None, Some(Anchor))

\* C11: on the heuristic path, when A is at least as good as B in every form component and
\* strictly better in one that is not clamped away, probabilityA > 0.5 and the winner is A;
\* in the scenario the probability exceeds 0.55.
C11_HeuristicFavoursStrongerForm ==
  (HasOutcome(last) /\ Val(last).fn = "predictOutcome" /\ Val(last).scorer = "heuristic") =>
    LET a == Val(Val(last).input.playerA)
        b == Val(Val(last).input.playerB)
    IN  /\ (AtLeastAsGood(a, b) /\ StrictlyBetterUnclamped(a, b)) =>
             /\ 2 * Outcome(last).probabilityA > ProbScale
             /\ Outcome(last).winner = "A"
        /\ Val(last).input = ScenarioInput =>
             /\ Outcome(last).winner = "A"
             /\ 100 * Outcome(last).probability > 55 * ProbScale

\* the scenario was predicted on the heuristic path
C11_Witness ==
  /\ HasOutcome(last)
  /\ Val(last).input = ScenarioInput
  /\ Val(last).scorer = "heuristic"
  /\ Outcome(last).winner = "A"
  /\ 100 * Outcome(last).probability > 55 * ProbScale

(***************************************************************************)
(* Factors: predictOutcome, once, on two players drawn from a grid around   *)
(* the thresholds of deriveFactors.                                         *)
(***************************************************************************)
\* recencyWinRate: unset (winRate 0.6 is used), 0.6, 0.55, 0.45
FactorRates == {None, Some(12), Some(11), Some(9)}

\* avgOpponentElo: unset, 1500, 1529, 1530
FactorOpponents == {None, Some(1500), Some(1529), Some(1530)}

\* <<sample, avgEloDelta>>: unset with sample 10 (30 / 10 is used), unset with sample 0
\* (no average), 8, 7
FactorDeltas == {<<10, None>>, <<0, None>>, <<10, Some(8)>>, <<10, Some(7)>>}

\* streak.current
FactorStreaks == {1, 2, 3}

FactorStats(rate, opponent, delta, current) ==
  [ makeStats EXCEPT !.recencyWinRate = rate, !.avgOpponentElo = opponent,
                     !.sample = delta[1], !.avgEloDelta = delta[2],
                     !.streak = [current |-> current, best |-> 3] ]

FactorPlayers ==
  { FactorStats(r, o, d, c) : r \in FactorRates, o \in FactorOpponents, d \in FactorDeltas,
                              c \in FactorStreaks }

FactorInputs ==
  { MakeInput(Some(a), Some(b), None, Some(Anchor)) : a \in FactorPlayers, b \in FactorPlayers }

FactorFirst ==
  /\ ~Has(last)
  /\ \E input \in FactorInputs : PredictOutcome(input)

NextFactors == FactorFirst

SpecFactors == Init /\ [][NextFactors]_vars

\* the thresholds: recency win-rate gap >= 0.05
RecencyGapMet(a, b) == 20 * Abs(RecencyOrWinRate(a) - RecencyOrWinRate(b)) >= RateScale

\* average opponent rating gap >= 30, both ratings known
OpponentGapMet(a, b) ==
  /\ Has(a.avgOpponentElo) /\ Has(b.avgOpponentElo)
  /\ Abs(Val(a.avgOpponentElo) - Val(b.avgOpponentElo)) >= 30

\* the average rating delta of a player, None when there is none
KnownAvgDelta(p) ==
  IF Has(p.avgEloDelta) THEN Some(<<Val(p.avgEloDelta), 1>>)
  ELSE IF p.sample > 0 THEN Some(<<p.totalEloDelta, p.sample>>) ELSE None

\* average rating-delta gap >= 5
MomentumGapMet(a, b) ==
  /\ Has(KnownAvgDelta(a)) /\ Has(KnownAvgDelta(b))
  /\ LET x == Val(KnownAvgDelta(a))
         y == Val(KnownAvgDelta(b))
     IN  Abs(x[1] * y[2] - y[1] * x[2]) >= 5 * x[2] * y[2]

\* current-streak gap strictly greater than 1 game
StreakGapMet(a, b) == Abs(a.streak.current - b.streak.current) > 1

\* the kinds of the factors of a prediction, in their order
FactorKinds(call) == [i \in 1..Len(Outcome(call).factors) |-> Outcome(call).factors[i].kind]

\* C12: the factors are at most 4, in the order recency, opponent, momentum, streak, and each
\* is present if and only if its threshold is met.
C12_FactorsInOrderIffThreshold ==
  HasOutcome(last) =>
    LET a == Val(Val(last).input.playerA)
        b == Val(Val(last).input.playerB)
    IN  /\ Len(Outcome(last).factors) <= 4
        /\ FactorKinds(last) =
             (IF RecencyGapMet(a, b) THEN <<"recency">> ELSE <<>>)
             \o (IF OpponentGapMet(a, b) THEN <<"opponent">> ELSE <<>>)
             \o (IF MomentumGapMet(a, b) THEN <<"momentum">> ELSE <<>>)
             \o (IF StreakGapMet(a, b) THEN <<"streak">> ELSE <<>>)

\* a prediction with the opponent gap exactly at its threshold and a streak gap of exactly 1:
\* the opponent factor present, the streak factor absent
C12_Witness ==
  /\ HasOutcome(last)
  /\ LET a == Val(Val(last).input.playerA)
         b == Val(Val(last).input.playerB)
     IN  /\ Has(a.avgOpponentElo) /\ Has(b.avgOpponentElo)
         /\ Val(b.avgOpponentElo) - Val(a.avgOpponentElo) = 30
         /\ a.streak.current - b.streak.current = 1
         /\ RecencyGapMet(a, b)
         /\ FactorKinds(last) = <<"recency", "opponent">>

(***************************************************************************)
(* predictFeatures.ts: feature extraction.                                  *)
(* A raw match record is                                                    *)
(*   [kind ("null", "primitive" or "object"), id?, ts?, playersIsArray,     *)
(*    players (a sequence of [uuid?, nick, elo?]), winner?, changes (a      *)
(*    sequence of [uuid?, change?]), duration?]                             *)
(* where ts is match.date ?? match.timestamp ?? match.played_at, nick is    *)
(* the first truthy of nickname, name, username, id ("" if none) and winner *)
(* is match.result.uuid.  A null entry of players reads as                  *)
(* [uuid: None, nick: "", elo: None] under the ?. accesses of the code.     *)
(* Times are in ticks; averages are exact fractions <<numerator,            *)
(* denominator>>; weights are in 1/WeightOne.                               *)
(***************************************************************************)
\* String(name || '').trim().toLowerCase() on the names the model draws
NameTable ==
  [ s \in {"Alpha", "alpha", " Alpha ", "ALPHA", "Beta", "beta", "Gamma", "gamma", "Ghost"} |->
      CASE s \in {"Alpha", "alpha", " Alpha ", "ALPHA"} -> "alpha"
        [] s \in {"Beta", "beta"} -> "beta"
        [] s \in {"Gamma", "gamma"} -> "gamma"
        [] OTHER -> "ghost" ]

\* normalizeName (api.ts); names outside the table are lower-case and trimmed already
normalizeName(name) == IF name \in DOMAIN NameTable THEN NameTable[name] ELSE name

\* normalizeTimestampMs: a missing or non-numeric timestamp is null, a timestamp in
\* milliseconds is kept
normalizeTimestampMs(value) == IF Has(value) THEN Some(Val(value)) ELSE None

RECURSIVE FindChange(_, _, _)
FindChange(changes, uuid, i) ==
  IF i > Len(changes) THEN None
  ELSE IF Has(changes[i].uuid) /\ Val(changes[i].uuid) = uuid
  THEN changes[i].change
  ELSE FindChange(changes, uuid, i + 1)

\* findEloChangeForPlayer: the rating change of the entry of match.changes that carries the
\* player's uuid; undefined without a uuid, without such an entry or without a finite change
findEloChangeForPlayer(changes, uuid) ==
  IF Has(uuid) THEN FindChange(changes, Val(uuid), 1) ELSE None

DEFAULT_LIMIT == 20

\* 48 hours: 2/7 of seven days, as the fraction <<numerator, denominator>> of ticks
DEFAULT_DECAY_MS == <<2 * sevenDaysMs, 7>>

\* one millisecond, the floor of decayMs, as a fraction of ticks
OneMs == <<1, (7 * 24 * 60 * 60 * 1000) \div sevenDaysMs>>

\* 2^20, the weight 1.0
WeightOne == 1024 * 1024

\* Math.pow(0.5, k / 20) in 1/WeightOne, k = 0 .. 200
HalfPowTable ==
  <<
     1048576, 1012858, 978356, 945030, 912838, 881744, 851708, 822696, 794672, 767603,
     741455, 716199, 691802, 668237, 645474, 623487, 602249, 581734, 561918, 542777,
     524288, 506429, 489178, 472515, 456419, 440872, 425854, 411348, 397336, 383801,
     370728, 358099, 345901, 334118, 322737, 311744, 301124, 290867, 280959, 271388,
     262144, 253214, 244589, 236257, 228210, 220436, 212927, 205674, 198668, 191901,
     185364, 179050, 172951, 167059, 161369, 155872, 150562, 145433, 140479, 135694,
     131072, 126607, 122295, 118129, 114105, 110218, 106464, 102837, 99334, 95950,
     92682, 89525, 86475, 83530, 80684, 77936, 75281, 72717, 70240, 67847,
     65536, 63304, 61147, 59064, 57052, 55109, 53232, 51419, 49667, 47975,
     46341, 44762, 43238, 41765, 40342, 38968, 37641, 36358, 35120, 33924,
     32768, 31652, 30574, 29532, 28526, 27554, 26616, 25709, 24834, 23988,
     23170, 22381, 21619, 20882, 20171, 19484, 18820, 18179, 17560, 16962,
     16384, 15826, 15287, 14766, 14263, 13777, 13308, 12855, 12417, 11994,
     11585, 11191, 10809, 10441, 10086, 9742, 9410, 9090, 8780, 8481,
     8192, 7913, 7643, 7383, 7132, 6889, 6654, 6427, 6208, 5997,
     5793, 5595, 5405, 5221, 5043, 4871, 4705, 4545, 4390, 4240,
     4096, 3956, 3822, 3692, 3566, 3444, 3327, 3214, 3104, 2998,
     2896, 2798, 2702, 2610, 2521, 2435, 2353, 2272, 2195, 2120,
     2048, 1978, 1911, 1846, 1783, 1722, 1663, 1607, 1552, 1499,
     1448, 1399, 1351, 1305, 1261, 1218, 1176, 1136, 1097, 1060,
     1024
  >>

\* Math.pow(0.5, ageMs / decayMs), decayMs the fraction <<n, d>>; exact where ageMs / decayMs
\* is a multiple of 1/20; below 2^-10 the table ends and the weight is taken as 0
halfLifeWeight(ageMs, decayMs) ==
  IF ageMs * decayMs[2] > 10 * decayMs[1] THEN 0
  ELSE HalfPowTable[(ageMs * 20 * decayMs[2]) \div decayMs[1] + 1]

\* the entry of players as mapMatchForPlayer maps it: uuid, normalized name, rating
MapPlayer(p) ==
  [ uuid |-> p.uuid,
    norm |-> normalizeName(IF p.nick # "" THEN p.nick ELSE OrElse(p.uuid, "")),
    eloAfter |-> p.elo ]

RECURSIVE FindSelf(_, _, _)
\* mapped.find(p => p.norm === targetNorm || (p.uuid && normalizeName(p.uuid) === targetNorm)):
\* the index of the first match, 0 if none
FindSelf(mapped, targetNorm, i) ==
  IF i > Len(mapped) THEN 0
  ELSE IF \/ mapped[i].norm = targetNorm
          \/ (Has(mapped[i].uuid) /\ normalizeName(Val(mapped[i].uuid)) = targetNorm)
  THEN i
  ELSE FindSelf(mapped, targetNorm, i + 1)

\* mapped.find(p => p !== self): the first entry other than self
FindOpponent(mapped, self) ==
  IF Len(mapped) < 2 THEN None
  ELSE IF self = 1 THEN Some(mapped[2]) ELSE Some(mapped[1])

\* the outcome decided by the rating delta before the winner id is looked at
ResolveIsWinDeltaFirst(winnerUuid, selfUuid, eloDelta) ==
  IF Has(eloDelta) /\ Val(eloDelta) > 0 THEN Some(TRUE)
  ELSE IF Has(eloDelta) /\ Val(eloDelta) < 0 THEN Some(FALSE)
  ELSE IF Has(winnerUuid) /\ Has(selfUuid) THEN Some(Val(winnerUuid) = Val(selfUuid))
  ELSE None

\* isWin of mapMatchForPlayer: None (null), Some(TRUE) or Some(FALSE)
ResolveIsWin(winnerUuid, selfUuid, eloDelta) ==
  IF Has(winnerUuid) /\ Has(selfUuid) THEN Some(Val(winnerUuid) = Val(selfUuid))
  ELSE IF Has(eloDelta) /\ Val(eloDelta) > 0 THEN Some(TRUE)
  ELSE IF Has(eloDelta) /\ Val(eloDelta) < 0 THEN Some(FALSE)
  ELSE None

\* mapMatchForPlayer on a record that is an object
MapObjectForPlayer(match, targetNorm) ==
  LET playedAt == normalizeTimestampMs(match.ts)
      players == IF match.playersIsArray THEN match.players ELSE <<>>
      mapped == [i \in 1..Len(players) |-> MapPlayer(players[i])]
      self == FindSelf(mapped, targetNorm, 1)
      opponent == FindOpponent(mapped, self)
      opponentEloAfter == IF Has(opponent) THEN Val(opponent).eloAfter ELSE None
      eloDelta == findEloChangeForPlayer(match.changes, mapped[self].uuid)
      isWin == ResolveIsWin(match.winner, mapped[self].uuid, eloDelta)
  IN  IF ~Has(playedAt) THEN [threw |-> FALSE, view |-> None]
      ELSE IF self = 0 THEN [threw |-> FALSE, view |-> None]
      ELSE IF ~Has(isWin) THEN [threw |-> FALSE, view |-> None]
      ELSE [ threw |-> FALSE,
             view |-> Some([ playedAt |-> Val(playedAt), isWin |-> Val(isWin),
                             eloDelta |-> eloDelta, opponentEloAfter |-> opponentEloAfter,
                             durationMs |-> match.duration ]) ]

\* mapMatchForPlayer with only typeof checked in its first line: match.date is read of null
mapMatchForPlayerUnguarded(match, targetNorm) ==
  IF match.kind = "null" THEN [threw |-> TRUE, view |-> None]
  ELSE IF match.kind # "object" THEN [threw |-> FALSE, view |-> None]
  ELSE MapObjectForPlayer(match, targetNorm)

\* mapMatchForPlayer: [threw, view], view None (null) or Some(PlayerMatchView)
mapMatchForPlayer(match, targetNorm) ==
  IF match.kind # "object" THEN [threw |-> FALSE, view |-> None]
  ELSE MapObjectForPlayer(match, targetNorm)

RECURSIVE NormalizeFrom(_, _, _)
NormalizeFrom(matches, targetNorm, i) ==
  IF i > Len(matches) THEN [threw |-> FALSE, views |-> <<>>]
  ELSE
    LET m == mapMatchForPlayer(matches[i], targetNorm)
        rest == NormalizeFrom(matches, targetNorm, i + 1)
    IN  IF m.threw THEN [threw |-> TRUE, views |-> <<>>]
        ELSE [ threw |-> rest.threw,
               views |-> (IF Has(m.view) THEN <<Val(m.view)>> ELSE <<>>) \o rest.views ]

\* normalizeMatchesForPlayer: [threw, views]
normalizeMatchesForPlayer(matches, targetNorm) == NormalizeFrom(matches, targetNorm, 1)

RECURSIVE InsertDesc(_, _, _)
\* v placed behind every entry of sorted that is not older than it (the sort is stable)
InsertDesc(sorted, v, i) ==
  IF i > Len(sorted) THEN Append(sorted, v)
  ELSE IF sorted[i].playedAt < v.playedAt
  THEN SubSeq(sorted, 1, i - 1) \o <<v>> \o SubSeq(sorted, i, Len(sorted))
  ELSE InsertDesc(sorted, v, i + 1)

RECURSIVE SortDescFrom(_, _, _)
SortDescFrom(views, i, sorted) ==
  IF i > Len(views) THEN sorted
  ELSE SortDescFrom(views, i + 1, InsertDesc(sorted, views[i], 1))

\* views.sort((a, b) => b.playedAt - a.playedAt)
SortDesc(views) == SortDescFrom(views, 1, <<>>)

\* the accumulators of computePlayerFeatures before its loop
FeatureAccInit ==
  [ wins |-> 0, losses |-> 0, totalEloDelta |-> 0, eloDeltaSamples |-> 0,
    oppEloTotal |-> 0, oppEloSamples |-> 0, winDurations |-> <<>>,
    recencyWinWeighted |-> 0, recencyWeight |-> 0,
    currentStreak |-> 0, bestStreak |-> 0, rollingStreak |-> 0, trackingCurrent |-> TRUE ]

\* one pass of the loop with the rolling streak kept over a loss
FeatureStepNoReset(acc, match, anchor, decayMs) ==
  LET ageMs == Max2(0, anchor - match.playedAt)
      weight == halfLifeWeight(ageMs, decayMs)
      rolling == acc.rollingStreak + 1
  IN  [ wins |-> acc.wins + (IF match.isWin THEN 1 ELSE 0),
        losses |-> acc.losses + (IF match.isWin THEN 0 ELSE 1),
        rollingStreak |-> IF match.isWin THEN rolling ELSE acc.rollingStreak,
        bestStreak |-> IF match.isWin THEN Max2(acc.bestStreak, rolling) ELSE acc.bestStreak,
        currentStreak |-> acc.currentStreak + (IF match.isWin /\ acc.trackingCurrent THEN 1 ELSE 0),
        trackingCurrent |-> acc.trackingCurrent /\ match.isWin,
        winDurations |-> IF match.isWin /\ Has(match.durationMs)
                         THEN Append(acc.winDurations, Val(match.durationMs))
                         ELSE acc.winDurations,
        recencyWinWeighted |-> acc.recencyWinWeighted + (IF match.isWin THEN weight ELSE 0),
        recencyWeight |-> acc.recencyWeight + weight,
        totalEloDelta |-> acc.totalEloDelta + OrElse(match.eloDelta, 0),
        eloDeltaSamples |-> acc.eloDeltaSamples + (IF Has(match.eloDelta) THEN 1 ELSE 0),
        oppEloTotal |-> acc.oppEloTotal + OrElse(match.opponentEloAfter, 0),
        oppEloSamples |-> acc.oppEloSamples + (IF Has(match.opponentEloAfter) THEN 1 ELSE 0) ]

\* one pass of the loop with the age not held at 0: a match after the anchor weighs more
FeatureStepFutureAge(acc, match, anchor, decayMs) ==
  LET ageMs == anchor - match.playedAt
      weight == IF ageMs >= 0 THEN halfLifeWeight(ageMs, decayMs)
                ELSE WeightOne * (WeightOne \div halfLifeWeight(-ageMs, decayMs))
      rolling == acc.rollingStreak + 1
  IN  [ wins |-> acc.wins + (IF match.isWin THEN 1 ELSE 0),
        losses |-> acc.losses + (IF match.isWin THEN 0 ELSE 1),
        rollingStreak |-> IF match.isWin THEN rolling ELSE 0,
        bestStreak |-> IF match.isWin THEN Max2(acc.bestStreak, rolling) ELSE acc.bestStreak,
        currentStreak |-> acc.currentStreak + (IF match.isWin /\ acc.trackingCurrent THEN 1 ELSE 0),
        trackingCurrent |-> acc.trackingCurrent /\ match.isWin,
        winDurations |-> IF match.isWin /\ Has(match.durationMs)
                         THEN Append(acc.winDurations, Val(match.durationMs))
                         ELSE acc.winDurations,
        recencyWinWeighted |-> acc.recencyWinWeighted + (IF match.isWin THEN weight ELSE 0),
        recencyWeight |-> acc.recencyWeight + weight,
        totalEloDelta |-> acc.totalEloDelta + OrElse(match.eloDelta, 0),
        eloDeltaSamples |-> acc.eloDeltaSamples + (IF Has(match.eloDelta) THEN 1 ELSE 0),
        oppEloTotal |-> acc.oppEloTotal + OrElse(match.opponentEloAfter, 0),
        oppEloSamples |-> acc.oppEloSamples + (IF Has(match.opponentEloAfter) THEN 1 ELSE 0) ]

\* one pass of the loop of computePlayerFeatures
FeatureStep(acc, match, anchor, decayMs) ==
  LET ageMs == Max2(0, anchor - match.playedAt)
      weight == halfLifeWeight(ageMs, decayMs)
      rolling == acc.rollingStreak + 1
  IN  [ wins |-> acc.wins + (IF match.isWin THEN 1 ELSE 0),
        losses |-> acc.losses + (IF match.isWin THEN 0 ELSE 1),
        rollingStreak |-> IF match.isWin THEN rolling ELSE 0,
        bestStreak |-> IF match.isWin THEN Max2(acc.bestStreak, rolling) ELSE acc.bestStreak,
        currentStreak |-> acc.currentStreak + (IF match.isWin /\ acc.trackingCurrent THEN 1 ELSE 0),
        trackingCurrent |-> acc.trackingCurrent /\ match.isWin,
        winDurations |-> IF match.isWin /\ Has(match.durationMs)
                         THEN Append(acc.winDurations, Val(match.durationMs))
                         ELSE acc.winDurations,
        recencyWinWeighted |-> acc.recencyWinWeighted + (IF match.isWin THEN weight ELSE 0),
        recencyWeight |-> acc.recencyWeight + weight,
        totalEloDelta |-> acc.totalEloDelta + OrElse(match.eloDelta, 0),
        eloDeltaSamples |-> acc.eloDeltaSamples + (IF Has(match.eloDelta) THEN 1 ELSE 0),
        oppEloTotal |-> acc.oppEloTotal + OrElse(match.opponentEloAfter, 0),
        oppEloSamples |-> acc.oppEloSamples + (IF Has(match.opponentEloAfter) THEN 1 ELSE 0) ]

RECURSIVE FeatureLoop(_, _, _, _, _)
FeatureLoop(trimmed, index, acc, anchor, decayMs) ==
  IF index > Len(trimmed) THEN acc
  ELSE FeatureLoop(trimmed, index + 1, FeatureStep(acc, trimmed[index], anchor, decayMs),
                   anchor, decayMs)

RECURSIVE SumSeq(_, _)
SumSeq(q, i) == IF i > Len(q) THEN 0 ELSE q[i] + SumSeq(q, i + 1)

RECURSIVE MinSeq(_, _)
MinSeq(q, i) == IF i = Len(q) THEN q[i] ELSE Min2(q[i], MinSeq(q, i + 1))

\* Math.round of the fraction n / d, n >= 0
MathRound(n, d) == (2 * n + d) \div (2 * d)

\* the larger of two positive fractions
FracMax(x, y) == IF x[1] * y[2] >= y[1] * x[2] THEN x ELSE y

\* views.slice(0, Math.max(1, options.limit ?? DEFAULT_LIMIT)) one match too long
TrimToLimitOneMore(views, limit) ==
  SubSeq(views, 1, Min2(Max2(1, OrElse(limit, DEFAULT_LIMIT)) + 1, Len(views)))

\* views.slice(0, Math.max(1, options.limit ?? DEFAULT_LIMIT))
TrimToLimit(views, limit) ==
  SubSeq(views, 1, Min2(Max2(1, OrElse(limit, DEFAULT_LIMIT)), Len(views)))

\* computePlayerFeatures(matches, playerName, options) at the time clock:
\* [threw, stats], stats None (null) or Some(PlayerFeatureStats)
computePlayerFeatures(matches, playerName, options, clock) ==
  LET targetNorm == normalizeName(playerName)
      anchor == OrElse(options.anchorMs, clock)
      decayMs == FracMax(OneMs, IF Has(options.decayMs) THEN <<Val(options.decayMs), 1>>
                                ELSE DEFAULT_DECAY_MS)
      normalized == normalizeMatchesForPlayer(matches, targetNorm)
      views == SortDesc(normalized.views)
      trimmed == TrimToLimit(views, options.limit)
      acc == FeatureLoop(trimmed, 1, FeatureAccInit, anchor, decayMs)
      sample == acc.wins + acc.losses
  IN  IF targetNorm = "" THEN [threw |-> FALSE, stats |-> None]
      ELSE IF normalized.threw THEN [threw |-> TRUE, stats |-> None]
      ELSE IF Len(trimmed) = 0 THEN [threw |-> FALSE, stats |-> None]
      ELSE
        [ threw |-> FALSE,
          stats |-> Some(
            [ player |-> playerName,
              sample |-> sample,
              wins |-> acc.wins,
              losses |-> acc.losses,
              winRate |-> IF sample > 0 THEN <<acc.wins, sample>> ELSE <<0, 1>>,
              recencyWinRate |-> IF acc.recencyWeight > 0
                                 THEN Some(<<acc.recencyWinWeighted, acc.recencyWeight>>)
                                 ELSE None,
              totalEloDelta |-> acc.totalEloDelta,
              avgEloDelta |-> IF acc.eloDeltaSamples > 0
                              THEN Some(<<acc.totalEloDelta, acc.eloDeltaSamples>>) ELSE None,
              avgOpponentElo |-> IF acc.oppEloSamples > 0
                                 THEN Some(<<acc.oppEloTotal, acc.oppEloSamples>>) ELSE None,
              durations |-> IF Len(acc.winDurations) > 0
                            THEN Some([ averageWin |-> MathRound(SumSeq(acc.winDurations, 1),
                                                                 Len(acc.winDurations)),
                                        bestWin |-> MinSeq(acc.winDurations, 1) ])
                            ELSE None,
              streak |-> [current |-> acc.currentStreak, best |-> acc.bestStreak],
              newestMatchAt |-> trimmed[1].playedAt,
              oldestMatchAt |-> trimmed[Len(trimmed)].playedAt ]) ]

(***************************************************************************)
(* Raw records as the match API and the tests build them.                   *)
(***************************************************************************)
\* the longest list of well-formed records drawn
MaxMatches == 3

\* the longest list of odd records drawn
MaxOddMatches == 2

PlayerAlpha == [uuid |-> Some("ua"), nick |-> "Alpha", elo |-> Some(1500)]

PlayerBeta == [uuid |-> Some("ub"), nick |-> "Beta", elo |-> Some(1550)]

PlayerGamma == [uuid |-> Some("ug"), nick |-> "Gamma", elo |-> Some(1600)]

\* Alpha listed by nickname only
PlayerAlphaNoUuid == [uuid |-> None, nick |-> "Alpha", elo |-> Some(1500)]

\* a null entry of players
PlayerNull == [uuid |-> None, nick |-> "", elo |-> None]

RawNull ==
  [ kind |-> "null", id |-> None, ts |-> None, playersIsArray |-> FALSE, players |-> <<>>,
    winner |-> None, changes |-> <<>>, duration |-> None ]

RawPrimitive == [RawNull EXCEPT !.kind = "primitive"]

\* makeMatch of predictFeatures.test.ts between the players one and two: winner a uuid or
\* None, delta the rating change of one (two gets the opposite) or None
makeMatch(id, one, two, winner, playedAt, delta) ==
  [ kind |-> "object", id |-> id, ts |-> Some(playedAt), playersIsArray |-> TRUE,
    players |-> <<one, two>>,
    winner |-> winner,
    changes |-> << [uuid |-> one.uuid, change |-> delta],
                   [uuid |-> two.uuid,
                    change |-> IF Has(delta) THEN Some(-Val(delta)) ELSE None] >>,
    duration |-> IF Has(winner) THEN Some(600) ELSE None ]

\* the times of the drawn matches: after the anchor, at it, one and two ticks before it
MatchTimes == {Anchor + 1, Anchor, Anchor - 1, Anchor - 2}

\* Alpha against Beta: a win and a loss at each time, and one record without an outcome
WindowRecords ==
  { makeMatch(None, PlayerAlpha, PlayerBeta, Some(w), t, Some(IF w = "ua" THEN 12 ELSE -15)) :
      w \in {"ua", "ub"}, t \in MatchTimes }
  \cup {makeMatch(None, PlayerAlpha, PlayerBeta, None, Anchor, Some(0))}

WindowLists == UNION {[1..n -> WindowRecords] : n \in 0..MaxMatches}

\* options: limit unset, 0, 1, 2; decayMs unset (48 hours) or one tick; the anchor given
WindowOptions ==
  { [limit |-> l, decayMs |-> d, anchorMs |-> Some(Anchor)] :
      l \in {None, Some(0), Some(1), Some(2)}, d \in {None, Some(1)} }

\* odd records, all at the anchor: not objects, no timestamp, players not an array, Alpha
\* absent, every way the outcome is or is not resolved, Alpha without a uuid
OddRecords ==
  { RawNull, RawPrimitive,
    [makeMatch(None, PlayerAlpha, PlayerBeta, Some("ua"), Anchor, Some(12)) EXCEPT !.ts = None],
    [makeMatch(None, PlayerAlpha, PlayerBeta, Some("ua"), Anchor, Some(12))
       EXCEPT !.playersIsArray = FALSE],
    makeMatch(None, PlayerNull, PlayerBeta, Some("ub"), Anchor, Some(12)),
    makeMatch(None, PlayerGamma, PlayerBeta, Some("ug"), Anchor, Some(12)),
    makeMatch(None, PlayerAlpha, PlayerBeta, Some("ua"), Anchor, Some(12)),
    makeMatch(None, PlayerBeta, PlayerAlpha, Some("ub"), Anchor, Some(12)),
    makeMatch(None, PlayerAlpha, PlayerBeta, Some("uz"), Anchor, None),
    makeMatch(None, PlayerAlpha, PlayerBeta, Some("ub"), Anchor, Some(12)),
    makeMatch(None, PlayerAlpha, PlayerBeta, None, Anchor, Some(12)),
    makeMatch(None, PlayerAlpha, PlayerBeta, None, Anchor, Some(-12)),
    makeMatch(None, PlayerAlpha, PlayerBeta, None, Anchor, Some(0)),
    makeMatch(None, PlayerAlpha, PlayerBeta, None, Anchor, None),
    makeMatch(None, PlayerAlphaNoUuid, PlayerBeta, Some("ub"), Anchor, None),
    makeMatch(None, PlayerAlphaNoUuid, PlayerBeta, Some("ub"), Anchor, Some(12)) }

OddLists == UNION {[1..n -> OddRecords] : n \in 0..MaxOddMatches}

\* the player asked for: Alpha in three spellings, nobody, somebody else
OddPlayers == {"Alpha", " Alpha ", "ALPHA", "", "Ghost"}

NoOptions == [limit |-> None, decayMs |-> None, anchorMs |-> None]

\* computePlayerFeatures(matches, playerName, options)
ComputePlayerFeatures(matches, playerName, options) ==
  LET r == computePlayerFeatures(matches, playerName, options, now)
  IN  /\ prev' = last
      /\ last' = Some([ fn |-> "computePlayerFeatures", matches |-> matches,
                        player |-> playerName, options |-> options, at |-> now,
                        threw |-> r.threw, stats |-> r.stats ])
      /\ UNCHANGED <<storeVars, now>>

(***************************************************************************)
(* Window: computePlayerFeatures, once, on a drawn list of Alpha's matches. *)
(***************************************************************************)
WindowFirst ==
  /\ ~Has(last)
  /\ \E matches \in WindowLists, options \in WindowOptions :
       ComputePlayerFeatures(matches, "Alpha", options)

NextWindow == WindowFirst

SpecWindow == Init /\ [][NextWindow]_vars

(***************************************************************************)
(* Resolve: computePlayerFeatures, once, on a drawn list of odd records,    *)
(* or predictOutcome, once, with or without an artifact on disk.            *)
(***************************************************************************)
ResolveFirst ==
  /\ ~Has(last)
  /\ \E matches \in OddLists, player \in OddPlayers :
       ComputePlayerFeatures(matches, player, NoOptions)

ResolvePredict ==
  /\ ~Has(last)
  /\ \E input \in FewInputs : PredictOutcome(input)

ResolveInstall ==
  /\ ~Has(last)
  /\ WriteFile(DEFAULT_MODEL_PATH, FileValid)

NextResolve == ResolveFirst \/ ResolvePredict \/ ResolveInstall

SpecResolve == Init /\ [][NextResolve]_vars

\* a computePlayerFeatures call was observed
IsFeatureCall(call) == Has(call) /\ Val(call).fn = "computePlayerFeatures"

\* the entries of players of a record that name the player
EntriesOf(raw, norm) ==
  IF raw.kind = "object" /\ raw.playersIsArray
  THEN { i \in 1..Len(raw.players) :
           \/ normalizeName(raw.players[i].nick) = norm
           \/ (Has(raw.players[i].uuid) /\ normalizeName(Val(raw.players[i].uuid)) = norm) }
  ELSE {}

\* the record carries a non-zero rating change for an entry that names the player
HasSignedDelta(raw, norm) ==
  \E i \in EntriesOf(raw, norm), j \in 1..Len(raw.changes) :
    /\ Has(raw.players[i].uuid)
    /\ raw.changes[j].uuid = raw.players[i].uuid
    /\ Has(raw.changes[j].change)
    /\ Val(raw.changes[j].change) # 0

\* a record that can resolve for the player: an object with a timestamp that lists the player
\* and names a winner or carries a non-zero rating change of the player
CanResolve(raw, norm) ==
  /\ raw.kind = "object"
  /\ Has(raw.ts)
  /\ EntriesOf(raw, norm) # {}
  /\ (Has(raw.winner) \/ HasSignedDelta(raw, norm))

\* C13: computePlayerFeatures never throws and returns null for a list in which no record
\* resolves for the player; predictOutcome returns null when playerA or playerB is missing.
C13_InsufficientDataIsNull ==
  /\ IsFeatureCall(last) =>
       LET c == Val(last)
       IN  /\ ~c.threw
           /\ ((\A i \in 1..Len(c.matches) : ~CanResolve(c.matches[i], normalizeName(c.player)))
                 => ~Has(c.stats))
           /\ (normalizeName(c.player) = "" => ~Has(c.stats))
  /\ (/\ Has(last) /\ Val(last).fn = "predictOutcome"
      /\ (~Has(Val(last).input.playerA) \/ ~Has(Val(last).input.playerB)))
       => ~Has(Val(last).outcome)

\* a list of a null entry and a record without an outcome gave null for Alpha
C13_Witness ==
  /\ IsFeatureCall(last)
  /\ Val(last).player = "Alpha"
  /\ Len(Val(last).matches) = 2
  /\ Val(last).matches[1] = RawNull
  /\ Val(last).matches[2] = makeMatch(None, PlayerAlpha, PlayerBeta, None, Anchor, Some(0))
  /\ ~Val(last).threw
  /\ ~Has(Val(last).stats)

\* predictOutcome with a missing player and an artifact installed returned null
C13_WitnessPredict ==
  /\ Has(last)
  /\ Val(last).fn = "predictOutcome"
  /\ ~Has(Val(last).input.playerA)
  /\ Has(Val(last).stored)
  /\ ~Has(Val(last).outcome)

\* the indices of the records of a call that can resolve for its player
Resolvable(call) ==
  { i \in 1..Len(Val(call).matches) :
      CanResolve(Val(call).matches[i], normalizeName(Val(call).player)) }

\* the configured limit of a call
ConfiguredLimit(call) == OrElse(Val(call).options.limit, DEFAULT_LIMIT)

\* the stats a call returned
StatsOf(call) == Val(Val(call).stats)

\* C14 as claimed: the sample is at most the configured limit.
C14_Original ==
  (IsFeatureCall(last) /\ Has(Val(last).stats)) =>
    StatsOf(last).sample <= ConfiguredLimit(last)

\* C14 as amended: the stats aggregate the max(1, limit) most recent resolvable matches, or
\* all of them if there are fewer: sample = wins + losses = min(max(1, limit), resolvable
\* matches), winRate = wins / sample lies in [0, 1], newestMatchAt >= oldestMatchAt, and
\* every resolvable match left out of the window is no newer than oldestMatchAt.
C14_WindowIsMostRecent ==
  (IsFeatureCall(last) /\ Has(Val(last).stats)) =>
    LET st == StatsOf(last)
        times == [i \in Resolvable(last) |-> Val(Val(last).matches[i].ts)]
    IN  /\ st.sample = st.wins + st.losses
        /\ st.sample = Min2(Max2(1, ConfiguredLimit(last)), Cardinality(Resolvable(last)))
        /\ st.wins >= 0 /\ st.losses >= 0
        /\ st.winRate = <<st.wins, st.sample>>
        /\ st.newestMatchAt >= st.oldestMatchAt
        /\ \A i \in Resolvable(last) : times[i] <= st.newestMatchAt
        /\ Cardinality({i \in Resolvable(last) : times[i] > st.oldestMatchAt}) < st.sample
        /\ Cardinality({i \in Resolvable(last) : times[i] >= st.oldestMatchAt}) >= st.sample

\* three resolvable matches at three times under limit 2: the oldest is left out
C14_Witness ==
  /\ IsFeatureCall(last) /\ Has(Val(last).stats)
  /\ Val(last).options.limit = Some(2)
  /\ Cardinality(Resolvable(last)) = 3
  /\ StatsOf(last).sample = 2
  /\ StatsOf(last).newestMatchAt = Anchor
  /\ StatsOf(last).oldestMatchAt = Anchor - 1
  /\ Val(Val(last).matches[1].ts) = Anchor - 2

\* the window of a call, most recent first, as the sequence of its outcomes (TRUE is a win):
\* the records that can resolve, ordered by time, the first max(1, limit) of them
WindowOutcomes(call) ==
  LET views == SortDesc(normalizeMatchesForPlayer(Val(call).matches,
                                                  normalizeName(Val(call).player)).views)
      n == StatsOf(call).sample
  IN  [i \in 1..n |-> views[i].isWin]

\* the lengths of the runs of wins in a sequence of outcomes, 0 included
WinRuns(w) ==
  {0} \cup { k \in 1..Len(w) : \E i \in 1..(Len(w) - k + 1) : \A m \in i..(i + k - 1) : w[m] }

\* the largest member of a non-empty set of numbers
MaxOf(S) == CHOOSE x \in S : \A y \in S : y <= x

\* the length of the run of wins that starts at the most recent match
LeadingWins(w) == MaxOf({k \in 0..Len(w) : \A m \in 1..k : w[m]})

\* C15: streak.current is the length of the run of wins that starts at the most recent match
\* and stops at the first loss, streak.best is the length of the longest run of wins in the
\* window, and streak.current <= streak.best <= wins.
C15_StreaksAreRuns ==
  (IsFeatureCall(last) /\ Has(Val(last).stats)) =>
    LET st == StatsOf(last)
        w == WindowOutcomes(last)
    IN  /\ st.streak.current = LeadingWins(w)
        /\ st.streak.best = MaxOf(WinRuns(w))
        /\ st.streak.current <= st.streak.best
        /\ st.streak.best <= st.wins

\* a window win, loss, win: current 1, best 1, two wins
C15_Witness ==
  /\ IsFeatureCall(last) /\ Has(Val(last).stats)
  /\ StatsOf(last).sample = 3
  /\ WindowOutcomes(last) = <<TRUE, FALSE, TRUE>>
  /\ StatsOf(last).streak.current = 1
  /\ StatsOf(last).streak.best = 1
  /\ StatsOf(last).wins = 2

\* the entry of players that stands for the player: the first that names them
SelfEntry(raw, norm) ==
  raw.players[CHOOSE i \in EntriesOf(raw, norm) : \A j \in EntriesOf(raw, norm) : i <= j]

\* the rating change the record carries for a uuid, None if it carries none
ChangeFor(raw, uuid) ==
  IF \E j \in 1..Len(raw.changes) : raw.changes[j].uuid = Some(uuid) /\ Has(raw.changes[j].change)
  THEN (raw.changes[CHOOSE j \in 1..Len(raw.changes) :
          raw.changes[j].uuid = Some(uuid) /\ Has(raw.changes[j].change)]).change
  ELSE None

\* the outcome by the player's rating change: "win", "loss" or "dropped"
OutcomeByDelta(raw, self) ==
  LET delta == IF Has(self.uuid) THEN ChangeFor(raw, Val(self.uuid)) ELSE None
  IN  IF Has(delta) /\ Val(delta) > 0 THEN "win"
      ELSE IF Has(delta) /\ Val(delta) < 0 THEN "loss"
      ELSE "dropped"

\* the outcome of a record for the player as claimed: a named winner decides, the player
\* wins iff the winner's id is their own; without a named winner the sign of their rating
\* change decides; absent players and unresolved records are dropped
ClaimedOutcome(raw, norm) ==
  IF raw.kind # "object" \/ ~Has(raw.ts) \/ EntriesOf(raw, norm) = {} THEN "dropped"
  ELSE IF Has(raw.winner)
  THEN IF SelfEntry(raw, norm).uuid = raw.winner THEN "win" ELSE "loss"
  ELSE OutcomeByDelta(raw, SelfEntry(raw, norm))

\* the outcome as amended: a named winner decides only when the player's own id is known
AmendedOutcome(raw, norm) ==
  IF raw.kind # "object" \/ ~Has(raw.ts) \/ EntriesOf(raw, norm) = {} THEN "dropped"
  ELSE IF Has(raw.winner) /\ Has(SelfEntry(raw, norm).uuid)
  THEN IF SelfEntry(raw, norm).uuid = raw.winner THEN "win" ELSE "loss"
  ELSE OutcomeByDelta(raw, SelfEntry(raw, norm))

\* the records of a call with a given claimed, or amended, outcome
ClaimedAs(call, outcome) ==
  { i \in 1..Len(Val(call).matches) :
      ClaimedOutcome(Val(call).matches[i], normalizeName(Val(call).player)) = outcome }

AmendedAs(call, outcome) ==
  { i \in 1..Len(Val(call).matches) :
      AmendedOutcome(Val(call).matches[i], normalizeName(Val(call).player)) = outcome }

\* the wins and losses a call counted, 0 and 0 when it returned null
CountedWins(call) == IF Has(Val(call).stats) THEN StatsOf(call).wins ELSE 0

CountedLosses(call) == IF Has(Val(call).stats) THEN StatsOf(call).losses ELSE 0

\* C16 as claimed: a record that names a winner is a win iff the winner's id is the player's
\* own, a loss otherwise; only without a named winner the sign of the rating change decides.
C16_Original ==
  (IsFeatureCall(last) /\ normalizeName(Val(last).player) # "") =>
    /\ CountedWins(last) = Cardinality(ClaimedAs(last, "win"))
    /\ CountedLosses(last) = Cardinality(ClaimedAs(last, "loss"))

\* C16 as amended: when the record names a winner and lists the player with an id of their
\* own, the player wins iff the two ids are equal; otherwise (no winner named, or the player
\* listed without an id) the sign of the player's rating change decides, positive a win,
\* negative a loss; a record in which the player is absent, or which is left with a zero or
\* missing rating change, is dropped and contributes to no aggregate.
C16_OutcomeResolution ==
  (IsFeatureCall(last) /\ normalizeName(Val(last).player) # "") =>
    /\ CountedWins(last) = Cardinality(AmendedAs(last, "win"))
    /\ CountedLosses(last) = Cardinality(AmendedAs(last, "loss"))
    /\ Has(Val(last).stats) <=> AmendedAs(last, "dropped") # 1..Len(Val(last).matches)

\* a record that names Beta as the winner although Alpha's rating change is positive counts
\* as a loss, and a record without a winner and a negative change as a second loss
C16_Witness ==
  /\ IsFeatureCall(last) /\ Has(Val(last).stats)
  /\ Val(last).player = "Alpha"
  /\ Val(last).matches = << makeMatch(None, PlayerAlpha, PlayerBeta, Some("ub"), Anchor, Some(12)),
                            makeMatch(None, PlayerAlpha, PlayerBeta, None, Anchor, Some(-12)) >>
  /\ StatsOf(last).wins = 0
  /\ StatsOf(last).losses = 2

\* the window of a call, most recent first, as the sequence of its kept matches
WindowViews(call) ==
  LET views == SortDesc(normalizeMatchesForPlayer(Val(call).matches,
                                                  normalizeName(Val(call).player)).views)
  IN  SubSeq(views, 1, StatsOf(call).sample)

\* the age of a kept match at the anchor of a call: max(0, anchor - playedAt)
MatchAge(call, view) ==
  IF OrElse(Val(call).options.anchorMs, Val(call).at) > view.playedAt
  THEN OrElse(Val(call).options.anchorMs, Val(call).at) - view.playedAt
  ELSE 0

\* the half-life of a call in ticks as the fraction <<n, d>>: options.decayMs, else 48 hours
HalfLifeOf(call) ==
  IF Has(Val(call).options.decayMs) THEN <<Val(Val(call).options.decayMs), 1>>
  ELSE <<48 * sevenDaysMs, 7 * 24>>

\* every kept match of the call is a whole number of half-lives old
WholeHalfLives(call) ==
  \A i \in 1..StatsOf(call).sample :
    (MatchAge(call, WindowViews(call)[i]) * HalfLifeOf(call)[2]) % HalfLifeOf(call)[1] = 0

\* the age of a kept match in half-lives
HalfLives(call, view) == (MatchAge(call, view) * HalfLifeOf(call)[2]) \div HalfLifeOf(call)[1]

RECURSIVE TwoTo(_)
\* 2^k
TwoTo(k) == IF k = 0 THEN 1 ELSE 2 * TwoTo(k - 1)

\* the oldest age in half-lives the drawn windows hold: the oldest age in ticks
MaxHalfLives == CHOOSE k \in 0..Anchor : (Anchor - k) \in MatchTimes /\ \A t \in MatchTimes : Anchor - t <= k

RECURSIVE WeightSum(_, _, _, _)
\* the sum over the kept matches from i on, of the wins only or of all, of 2^-k in units
\* of 2^-MaxHalfLives
WeightSum(call, i, winsOnly, views) ==
  IF i > Len(views) THEN 0
  ELSE (IF winsOnly /\ ~views[i].isWin THEN 0
        ELSE TwoTo(MaxHalfLives - HalfLives(call, views[i])))
       + WeightSum(call, i + 1, winsOnly, views)

\* the call is the scenario: Alpha's two matches against Beta, one at the anchor and one a
\* half-life before it, the more recent one won (or lost) and the other lost (or won)
RecencyScenario(call, recentWinner, olderWinner) ==
  /\ IsFeatureCall(call)
  /\ Val(call).options.decayMs = Some(1)
  /\ Val(call).options.limit \in {None, Some(2)}
  /\ \E recent, older \in WindowRecords :
       /\ recent.ts = Some(Anchor) /\ recent.winner = Some(recentWinner)
       /\ older.ts = Some(Anchor - 1) /\ older.winner = Some(olderWinner)
       /\ Val(call).matches \in {<<recent, older>>, <<older, recent>>}

\* C17: recencyWinRate is the sum of the weights of the wins over the sum of all weights,
\* a match k half-lives before the anchor weighing 2^-k and a match at or after the anchor
\* weighing 1; a win at the anchor and a loss one half-life before it give 2/3, the loss at
\* the anchor and the win before it give 1/3.
C17_RecencyWinRateIsWeighted ==
  /\ (IsFeatureCall(last) /\ Has(Val(last).stats) /\ WholeHalfLives(last)) =>
       /\ Has(StatsOf(last).recencyWinRate)
       /\ Val(StatsOf(last).recencyWinRate)[2] > 0
       /\ Val(StatsOf(last).recencyWinRate)[1] * WeightSum(last, 1, FALSE, WindowViews(last))
            = Val(StatsOf(last).recencyWinRate)[2] * WeightSum(last, 1, TRUE, WindowViews(last))
  /\ RecencyScenario(last, "ua", "ub") =>
       /\ Has(Val(last).stats) /\ Has(StatsOf(last).recencyWinRate)
       /\ 3 * Val(StatsOf(last).recencyWinRate)[1] = 2 * Val(StatsOf(last).recencyWinRate)[2]
  /\ RecencyScenario(last, "ub", "ua") =>
       /\ Has(Val(last).stats) /\ Has(StatsOf(last).recencyWinRate)
       /\ 3 * Val(StatsOf(last).recencyWinRate)[1] = Val(StatsOf(last).recencyWinRate)[2]

\* the scenario with the win the more recent: 2/3
C17_Witness ==
  /\ RecencyScenario(last, "ua", "ub")
  /\ Has(Val(last).stats)
  /\ 3 * Val(StatsOf(last).recencyWinRate)[1] = 2 * Val(StatsOf(last).recencyWinRate)[2]

\* a match played after the anchor is in the window and weighs 1, not more
C17_WitnessFuture ==
  /\ IsFeatureCall(last) /\ Has(Val(last).stats)
  /\ Val(last).options.decayMs = Some(1)
  /\ StatsOf(last).sample = 2
  /\ StatsOf(last).newestMatchAt = Anchor + 1
  /\ StatsOf(last).oldestMatchAt = Anchor - 1
  /\ WindowViews(last)[1].isWin
  /\ 3 * Val(StatsOf(last).recencyWinRate)[1] = 2 * Val(StatsOf(last).recencyWinRate)[2]

(***************************************************************************)
(* Backtest sample preparation (predictBacktest.ts).  fetchUserMatches is   *)
(* the network: the history it returns for a player is drawn.  A Map is a   *)
(* sequence in insertion order.  An event key is the tuple of the parts of  *)
(* the key string.                                                          *)
(***************************************************************************)
\* (name || '').trim() on the names the model draws
TrimName(name) == IF name = " Alpha " THEN "Alpha" ELSE name

RECURSIVE DedupePlayersFrom(_, _, _, _)
DedupePlayersFrom(players, i, seen, out) ==
  IF i > Len(players) THEN out
  ELSE
    LET trimmed == TrimName(players[i])
        norm == normalizeName(trimmed)
    IN  IF norm = "" \/ norm \in seen
        THEN DedupePlayersFrom(players, i + 1, seen, out)
        ELSE DedupePlayersFrom(players, i + 1, seen \cup {norm}, Append(out, trimmed))

\* dedupePlayers: the trimmed names, the first of each normalized name, no empty name
dedupePlayers(players) == DedupePlayersFrom(players, 1, {}, <<>>)

RECURSIVE DedupeByNameFrom(_, _, _, _)
DedupeByNameFrom(items, i, seen, result) ==
  IF i > Len(items) THEN result
  ELSE IF items[i].name \in seen
  THEN DedupeByNameFrom(items, i + 1, seen, result)
  ELSE DedupeByNameFrom(items, i + 1, seen \cup {items[i].name}, Append(result, items[i]))

\* dedupeByName: the first item of each name
dedupeByName(items) == DedupeByNameFrom(items, 1, {}, <<>>)

\* the strings the model compares, in the order of the default sort of strings
StringOrder == <<"alpha", "beta", "gamma", "ghost">>

StringRank(name) == CHOOSE i \in 1..Len(StringOrder) : StringOrder[i] = name

\* the pair of names left as the record lists them
sortedPairAsListed(one, two) == <<one, two>>

\* [one.name, two.name].sort()
sortedPair(one, two) ==
  IF StringRank(two) < StringRank(one) THEN <<two, one>> ELSE <<one, two>>

\* buildEventKey: `id:${id}` with a source id, else `seed:${playedAt}:${pair.join(':')}`
buildEventKey(match, playedAt, pair) ==
  IF Has(match.id) THEN <<"id", Val(match.id)>>
  ELSE <<"seed", playedAt, pair[1], pair[2]>>

\* winnerFromUuid: the name of the player whose uuid is the winner's, None (null) if none
winnerFromUuid(match, players) ==
  IF ~Has(match.winner) THEN None
  ELSE IF \E i \in 1..Len(players) : players[i].uuid = match.winner
  THEN Some(players[CHOOSE i \in 1..Len(players) :
                      /\ players[i].uuid = match.winner
                      /\ \A j \in 1..(i - 1) : players[j].uuid # match.winner].name)
  ELSE None

\* winnerFromDelta without the test that the larger change is positive
winnerFromDeltaAnySign(match, players) ==
  LET deltas == [i \in 1..Len(players) |->
                   [ name |-> players[i].name,
                     delta |-> findEloChangeForPlayer(match.changes, players[i].uuid) ]]
      valid == SelectSeq(deltas, LAMBDA entry : Has(entry.delta))
      top == IF Val(valid[2].delta) > Val(valid[1].delta) THEN valid[2] ELSE valid[1]
      second == IF Val(valid[2].delta) > Val(valid[1].delta) THEN valid[1] ELSE valid[2]
  IN  IF Len(valid) < 2 THEN None
      ELSE IF Val(top.delta) <= Val(second.delta) THEN None
      ELSE Some(top.name)

\* winnerFromDelta on the two players of an event: the one with the larger rating change,
\* if both changes are known, differ and the larger is positive
winnerFromDelta(match, players) ==
  LET deltas == [i \in 1..Len(players) |->
                   [ name |-> players[i].name,
                     delta |-> findEloChangeForPlayer(match.changes, players[i].uuid) ]]
      valid == SelectSeq(deltas, LAMBDA entry : Has(entry.delta))
      top == IF Val(valid[2].delta) > Val(valid[1].delta) THEN valid[2] ELSE valid[1]
      second == IF Val(valid[2].delta) > Val(valid[1].delta) THEN valid[1] ELSE valid[2]
  IN  IF Len(valid) < 2 THEN None
      ELSE IF Val(top.delta) <= Val(second.delta) THEN None
      ELSE IF Val(top.delta) <= 0 THEN None
      ELSE Some(top.name)

\* the entry of players as normalizeEvent maps it
MapEventPlayer(p) ==
  [ uuid |-> p.uuid,
    name |-> normalizeName(IF p.nick # "" THEN p.nick ELSE OrElse(p.uuid, "")) ]

\* normalizeEvent: kind "null" (null), "missingParticipants" or "missingWinner" (no event
\* and a reason) or "event"
normalizeEvent(match, pool) ==
  LET playedAt == normalizeTimestampMs(match.ts)
      players == IF match.playersIsArray THEN match.players ELSE <<>>
      mapped == SelectSeq([i \in 1..Len(players) |-> MapEventPlayer(players[i])],
                          LAMBDA player : player.name # "")
      unique == dedupeByName(mapped)
      firstTwo == SubSeq(unique, 1, 2)
      one == firstTwo[1]
      two == firstTwo[2]
      winnerByUuid == winnerFromUuid(match, firstTwo)
      winnerByDelta == winnerFromDelta(match, firstTwo)
      winner == IF Has(winnerByUuid) THEN winnerByUuid ELSE winnerByDelta
  IN  IF match.kind # "object" THEN [kind |-> "null", event |-> None]
      ELSE IF ~Has(playedAt) THEN [kind |-> "null", event |-> None]
      ELSE IF Len(players) < 2 THEN [kind |-> "missingParticipants", event |-> None]
      ELSE IF Len(mapped) < 2 THEN [kind |-> "missingParticipants", event |-> None]
      ELSE IF Len(unique) < 2 THEN [kind |-> "missingParticipants", event |-> None]
      ELSE IF one.name \notin pool \/ two.name \notin pool
      THEN [kind |-> "missingParticipants", event |-> None]
      ELSE IF ~Has(winner) THEN [kind |-> "missingWinner", event |-> None]
      ELSE [ kind |-> "event",
             event |-> Some([ key |-> buildEventKey(match, Val(playedAt),
                                                    sortedPair(one.name, two.name)),
                              playedAt |-> Val(playedAt),
                              playerA |-> one.name,
                              playerB |-> two.name,
                              winner |-> Val(winner),
                              match |-> match ]) ]

RECURSIVE InsertAsc(_, _, _)
\* v placed behind every entry of sorted that is not later than it (the sort is stable)
InsertAsc(sorted, v, i) ==
  IF i > Len(sorted) THEN Append(sorted, v)
  ELSE IF sorted[i].playedAt > v.playedAt
  THEN SubSeq(sorted, 1, i - 1) \o <<v>> \o SubSeq(sorted, i, Len(sorted))
  ELSE InsertAsc(sorted, v, i + 1)

RECURSIVE SortAscFrom(_, _, _)
SortAscFrom(entries, i, sorted) ==
  IF i > Len(entries) THEN sorted
  ELSE SortAscFrom(entries, i + 1, InsertAsc(sorted, entries[i], 1))

\* entries.sort((a, b) => a.playedAt - b.playedAt)
SortAsc(entries) == SortAscFrom(entries, 1, <<>>)

RECURSIVE CollectFrom(_, _, _, _)
\* the loop of collectMatchEvents over the entries of all histories, in their order
CollectFrom(entries, i, pool, acc) ==
  IF i > Len(entries) THEN acc
  ELSE
    LET normalized == normalizeEvent(entries[i].match, pool)
    IN  IF normalized.kind \in {"null", "missingParticipants"}
        THEN CollectFrom(entries, i + 1, pool,
                         [acc EXCEPT !.missingParticipants = @ + 1])
        ELSE IF normalized.kind = "missingWinner"
        THEN CollectFrom(entries, i + 1, pool, [acc EXCEPT !.missingWinner = @ + 1])
        ELSE IF \E j \in 1..Len(acc.seen) : acc.seen[j].key = Val(normalized.event).key
        THEN CollectFrom(entries, i + 1, pool, acc)
        ELSE CollectFrom(entries, i + 1, pool,
                         [acc EXCEPT !.seen = Append(@, Val(normalized.event))])

RECURSIVE AllEntries(_, _)
\* the entries of histories.values(), one history after the other
AllEntries(histories, i) ==
  IF i > Len(histories) THEN <<>>
  ELSE histories[i].entries \o AllEntries(histories, i + 1)

\* collectMatchEvents: the events, the first seen of each key, by time, and the rejections
collectMatchEvents(histories, pool) ==
  LET acc == CollectFrom(AllEntries(histories, 1), 1, pool,
                         [seen |-> <<>>, missingParticipants |-> 0, missingWinner |-> 0])
  IN  [ events |-> SortAsc(acc.seen),
        rejected |-> [ missingParticipants |-> acc.missingParticipants,
                       missingWinner |-> acc.missingWinner ] ]

RECURSIVE HistorySearch(_, _, _, _)
\* the loop of historyBefore: lo when it ends
HistorySearch(entries, anchorMs, lo, hi) ==
  IF lo < hi
  THEN LET mid == (lo + hi) \div 2
       IN  IF entries[mid + 1].playedAt < anchorMs
           THEN HistorySearch(entries, anchorMs, mid + 1, hi)
           ELSE HistorySearch(entries, anchorMs, lo, mid)
  ELSE lo

RECURSIVE HistorySearchInclusive(_, _, _, _)
HistorySearchInclusive(entries, anchorMs, lo, hi) ==
  IF lo < hi
  THEN LET mid == (lo + hi) \div 2
       IN  IF entries[mid + 1].playedAt <= anchorMs
           THEN HistorySearchInclusive(entries, anchorMs, mid + 1, hi)
           ELSE HistorySearchInclusive(entries, anchorMs, lo, mid)
  ELSE lo

\* historyBefore with the entries at the anchor taken too
historyBeforeInclusive(entries, anchorMs) ==
  SubSeq(entries, 1, HistorySearchInclusive(entries, anchorMs, 0, Len(entries)))

\* historyBefore: entries.slice(0, lo)
historyBefore(entries, anchorMs) ==
  SubSeq(entries, 1, HistorySearch(entries, anchorMs, 0, Len(entries)))

\* the entries of a fetched history: the matches with a timestamp, by time
HistoryEntries(matches) ==
  LET stamped == [i \in 1..Len(matches) |->
                    [ playedAt |-> IF matches[i].kind = "object"
                                   THEN normalizeTimestampMs(matches[i].ts) ELSE None,
                      match |-> matches[i] ]]
      kept == SelectSeq(stamped, LAMBDA entry : Has(entry.playedAt))
  IN  SortAsc([i \in 1..Len(kept) |-> [playedAt |-> Val(kept[i].playedAt),
                                       match |-> kept[i].match]])

\* histories.get(name) ?? []
HistoryOf(histories, name) ==
  IF \E i \in 1..Len(histories) : histories[i].norm = name
  THEN histories[CHOOSE i \in 1..Len(histories) : histories[i].norm = name].entries
  ELSE <<>>

\* histories.set(norm, entries): the entry of the key replaced in place, else appended
HistorySet(histories, norm, entries) ==
  IF \E i \in 1..Len(histories) : histories[i].norm = norm
  THEN [i \in 1..Len(histories) |->
          IF histories[i].norm = norm THEN [norm |-> norm, entries |-> entries]
          ELSE histories[i]]
  ELSE Append(histories, [norm |-> norm, entries |-> entries])

RECURSIVE BuildHistories(_, _, _, _)
\* the loop that fetches and sorts the history of every player
BuildHistories(uniquePlayers, fetched, i, histories) ==
  IF i > Len(uniquePlayers) THEN histories
  ELSE BuildHistories(uniquePlayers, fetched, i + 1,
                      HistorySet(histories, normalizeName(uniquePlayers[i]),
                                 HistoryEntries(fetched[normalizeName(uniquePlayers[i])])))

\* the test of the loop of buildBacktestSamples with both histories required short
MissingHistoryBoth(historyA, historyB, minHistory) ==
  Len(historyA) < minHistory /\ Len(historyB) < minHistory

\* historyA.length < minHistory || historyB.length < minHistory
MissingHistory(historyA, historyB, minHistory) ==
  Len(historyA) < minHistory \/ Len(historyB) < minHistory

\* the matches of history entries
MatchesOf(entries) == [i \in 1..Len(entries) |-> entries[i].match]

\* the rest of a pass of the loop once both feature sets are computed
SampleOf(acc, event, featureLimit, featuresA, featuresB) ==
  IF featuresA.threw \/ featuresB.threw
  THEN [acc EXCEPT !.threw = TRUE]
  ELSE IF ~Has(featuresA.stats) \/ ~Has(featuresB.stats)
  THEN [acc EXCEPT !.modelUnavailable = @ + 1]
  ELSE [acc EXCEPT !.samples = Append(@,
          [ matchKey |-> event.key,
            playedAt |-> event.playedAt,
            playerA |-> event.playerA,
            playerB |-> event.playerB,
            labelA |-> IF event.winner = event.playerA THEN 1 ELSE 0,
            targetSample |-> featureLimit,
            featuresA |-> Val(featuresA.stats),
            featuresB |-> Val(featuresB.stats) ])]

\* the options of the two computePlayerFeatures calls of the loop
FeatureOptions(featureLimit, event) ==
  [limit |-> Some(featureLimit), decayMs |-> None, anchorMs |-> Some(event.playedAt)]

\* one pass of the loop of buildBacktestSamples, the two histories cut at the event
SampleStep(acc, event, historyA, historyB, featureLimit, minHistory, clock) ==
  IF MissingHistory(historyA, historyB, minHistory)
  THEN [acc EXCEPT !.missingHistory = @ + 1]
  ELSE SampleOf(acc, event, featureLimit,
                computePlayerFeatures(MatchesOf(historyA), event.playerA,
                                      FeatureOptions(featureLimit, event), clock),
                computePlayerFeatures(MatchesOf(historyB), event.playerB,
                                      FeatureOptions(featureLimit, event), clock))

RECURSIVE SampleLoop(_, _, _, _, _, _, _)
\* the loop of buildBacktestSamples over the events
SampleLoop(events, i, histories, featureLimit, minHistory, clock, acc) ==
  IF i > Len(events) \/ acc.threw THEN acc
  ELSE SampleLoop(events, i + 1, histories, featureLimit, minHistory, clock,
                  SampleStep(acc, events[i],
                             historyBefore(HistoryOf(histories, events[i].playerA),
                                           events[i].playedAt),
                             historyBefore(HistoryOf(histories, events[i].playerB),
                                           events[i].playedAt),
                             featureLimit, minHistory, clock))

\* what buildBacktestSamples returns once its loop has ended
PreparedData(uniquePlayers, collected, acc) ==
  IF acc.threw THEN [threw |-> TRUE, data |-> None, events |-> collected.events]
  ELSE
    [ threw |-> FALSE,
      data |-> Some(
        [ players |-> uniquePlayers,
          consideredMatches |-> Len(collected.events),
          skipped |-> [ missingParticipants |-> collected.rejected.missingParticipants,
                        missingWinner |-> collected.rejected.missingWinner,
                        missingHistory |-> acc.missingHistory,
                        modelUnavailable |-> acc.modelUnavailable ],
          samples |-> acc.samples ]),
      events |-> collected.events ]

\* buildBacktestSamples from the histories built and the events collected
SamplesFrom(uniquePlayers, histories, collected, featureLimit, minHistory, clock) ==
  PreparedData(uniquePlayers, collected,
               SampleLoop(collected.events, 1, histories, featureLimit, minHistory, clock,
                          [ samples |-> <<>>, missingHistory |-> 0, modelUnavailable |-> 0,
                            threw |-> FALSE ]))

\* the pool of buildBacktestSamples: the normalized names of the players
PlayerSet(uniquePlayers) ==
  { normalizeName(uniquePlayers[i]) : i \in 1..Len(uniquePlayers) }

\* buildBacktestSamples once the histories are fetched
CollectAndSample(uniquePlayers, histories, featureLimit, minHistory, clock) ==
  SamplesFrom(uniquePlayers, histories,
              collectMatchEvents(histories, PlayerSet(uniquePlayers)),
              featureLimit, minHistory, clock)

\* buildBacktestSamples once the players are known
BacktestOf(uniquePlayers, fetched, featureLimit, minHistory, clock) ==
  IF Len(uniquePlayers) < 2
  THEN [threw |-> TRUE, data |-> None, events |-> <<>>]
  ELSE CollectAndSample(uniquePlayers, BuildHistories(uniquePlayers, fetched, 1, <<>>),
                        featureLimit, minHistory, clock)

\* minHistory = Math.max(1, options.minHistory ?? featureLimit)
MinHistoryOf(options, featureLimit) == Max2(1, OrElse(options.minHistory, featureLimit))

\* buildBacktestSamples(options) with the histories fetched: [threw, data, events], data
\* None when it threw, events the events it collected
buildBacktestSamples(options, fetched, clock) ==
  BacktestOf(dedupePlayers(options.players), fetched,
             Max2(1, OrElse(options.featureLimit, 10)),
             MinHistoryOf(options, Max2(1, OrElse(options.featureLimit, 10))),
             clock)

(***************************************************************************)
(* The matches the backtest draws from.  A match between Alpha and Beta is  *)
(* a pair of records: as Alpha's history lists it and as Beta's does, the   *)
(* players in the other order.                                              *)
(***************************************************************************)
MaxHistory == 3

EarlyAt == Anchor - 3

EventAt == Anchor - 2

LateAt == Anchor - 1

\* a match of Alpha and Beta as each side's history lists it; delta is Alpha's change
SharedMatch(id, winner, playedAt, delta) ==
  [ a |-> makeMatch(id, PlayerAlpha, PlayerBeta, winner, playedAt, delta),
    b |-> makeMatch(id, PlayerBeta, PlayerAlpha, winner, playedAt,
                    IF Has(delta) THEN Some(-Val(delta)) ELSE None) ]

\* an early match with an id, won by Alpha
SharedEarly == SharedMatch(Some("m1"), Some("ua"), EarlyAt, Some(12))

\* a match without an id, won by Beta
SharedSeed == SharedMatch(None, Some("ub"), EventAt, Some(-15))

\* a drawn match at the same time: no winner named, no rating change
SharedDraw == SharedMatch(Some("m3"), None, EventAt, Some(0))

\* a late match with an id, no winner named, Alpha's rating up
SharedDelta == SharedMatch(Some("m4"), None, LateAt, Some(9))

SharedMatches == {SharedEarly, SharedSeed, SharedDelta, SharedDraw}

\* what fetchUserMatches can return for Alpha, most recent first: the shared matches, a
\* draw against Gamma, a null record
AlphaFetchable ==
  << SharedDelta.a, SharedSeed.a, SharedDraw.a, SharedEarly.a,
     makeMatch(Some("g2"), PlayerAlpha, PlayerGamma, None, EarlyAt, Some(0)),
     RawNull >>

\* and for Beta: the shared matches
BetaFetchable == << SharedDelta.b, SharedDraw.b, SharedSeed.b, SharedEarly.b >>

RECURSIVE PickFrom(_, _, _)
\* the entries of a sequence at the indices S, in its order
PickFrom(seq, S, i) ==
  IF i > Len(seq) THEN <<>>
  ELSE (IF i \in S THEN <<seq[i]>> ELSE <<>>) \o PickFrom(seq, S, i + 1)

\* the histories a fetch can return: up to MaxHistory of the fetchable records
FetchedLists(fetchable) ==
  { PickFrom(fetchable, S, 1) :
      S \in { T \in SUBSET (1..Len(fetchable)) : Cardinality(T) <= MaxHistory } }

FetchedHistories ==
  { [alpha |-> a, beta |-> b] : a \in FetchedLists(AlphaFetchable),
                                b \in FetchedLists(BetaFetchable) }

\* the player lists of a backtest: the two, and the two spelled thrice in the other order
PlayersAsGiven == <<"Alpha", "Beta">>

PlayersRespelled == <<"Beta", " Alpha ", "beta">>

\* the options: 1 of history for either list, 2 of history, a feature limit of 1 (and so 1
\* of history), nothing set (10 and 10)
BacktestOptions ==
  { [players |-> PlayersAsGiven, featureLimit |-> None, minHistory |-> Some(1)],
    [players |-> PlayersRespelled, featureLimit |-> None, minHistory |-> Some(1)],
    [players |-> PlayersRespelled, featureLimit |-> None, minHistory |-> Some(2)],
    [players |-> PlayersAsGiven, featureLimit |-> Some(1), minHistory |-> None],
    [players |-> PlayersAsGiven, featureLimit |-> None, minHistory |-> None] }

\* a player list that names one player only
OnePlayerOptions ==
  [players |-> <<"Alpha", "", "ALPHA">>, featureLimit |-> None, minHistory |-> None]

NothingFetched == [alpha |-> <<>>, beta |-> <<>>]

\* the record of a buildBacktestSamples call
BacktestCall(options, fetched, at, r) ==
  [ fn |-> "buildBacktestSamples", options |-> options, fetched |-> fetched, at |-> at,
    threw |-> r.threw, data |-> r.data, events |-> r.events ]

\* buildBacktestSamples(options), the fetches returning fetched
BuildBacktestSamples(options, fetched) ==
  /\ prev' = last
  /\ last' = Some(BacktestCall(options, fetched, now,
                               buildBacktestSamples(options, fetched, now)))
  /\ UNCHANGED <<storeVars, now>>

(***************************************************************************)
(* Backtest: buildBacktestSamples, once, on drawn histories.                *)
(***************************************************************************)
BacktestFirst ==
  /\ ~Has(last)
  /\ \/ \E options \in BacktestOptions, fetched \in FetchedHistories :
          BuildBacktestSamples(options, fetched)
     \/ BuildBacktestSamples(OnePlayerOptions, NothingFetched)

NextBacktest == BacktestFirst

SpecBacktest == Init /\ [][NextBacktest]_vars

(***************************************************************************)
(* Claims about buildBacktestSamples.                                       *)
(***************************************************************************)
\* the call is a buildBacktestSamples that returned
IsBacktest(call) ==
  Has(call) /\ Val(call).fn = "buildBacktestSamples" /\ ~Val(call).threw

\* what a backtest returned
DataOf(call) == Val(Val(call).data)

\* the members of a sequence
Range(seq) == { seq[i] : i \in 1..Len(seq) }

\* the shared matches that both fetched histories of a call list
SeenFromBothSides(call) ==
  { m \in SharedMatches : m.a \in Range(Val(call).fetched.alpha)
                          /\ m.b \in Range(Val(call).fetched.beta) }

\* the key of a record of Alpha and Beta as claimed: the source id, else the timestamp and
\* the two names in order
ClaimedKey(raw) ==
  IF Has(raw.id) THEN <<"id", Val(raw.id)>> ELSE <<"seed", Val(raw.ts), "alpha", "beta">>

\* the events and the samples of a call under a key
EventsUnder(call, key) == { j \in 1..Len(Val(call).events) : Val(call).events[j].key = key }

SamplesUnder(call, key) ==
  { j \in 1..Len(DataOf(call).samples) : DataOf(call).samples[j].matchKey = key }

\* the winner of a record can be determined: it names the uuid of one of its players as the
\* winner, or it lists a rating change for both that differs, the larger one positive
WinnerKnown(raw) ==
  \/ \E i \in 1..Len(raw.players) : Has(raw.winner) /\ raw.players[i].uuid = raw.winner
  \/ \E i, j \in 1..Len(raw.players) :
       /\ Has(raw.players[i].uuid) /\ Has(raw.players[j].uuid)
       /\ Has(ChangeFor(raw, Val(raw.players[i].uuid)))
       /\ Has(ChangeFor(raw, Val(raw.players[j].uuid)))
       /\ Val(ChangeFor(raw, Val(raw.players[i].uuid)))
            > Val(ChangeFor(raw, Val(raw.players[j].uuid)))
       /\ Val(ChangeFor(raw, Val(raw.players[i].uuid))) > 0

\* the key of a record seen from either side, None when it makes no event
KeyFrom(raw) ==
  IF normalizeEvent(raw, {"alpha", "beta"}).kind = "event"
  THEN Some(Val(normalizeEvent(raw, {"alpha", "beta"}).event).key)
  ELSE None

\* C18 as claimed: a match of two pool players listed in both fetched histories is exactly
\* one event and at most one sample, under the same key from either side: the source id,
\* else the timestamp and the sorted pair of names.
C18_Original ==
  IsBacktest(last) =>
    \A m \in SeenFromBothSides(last) :
      /\ Cardinality(EventsUnder(last, ClaimedKey(m.a))) = 1
      /\ Cardinality(SamplesUnder(last, ClaimedKey(m.a))) <= 1
      /\ KeyFrom(m.a) = Some(ClaimedKey(m.a))
      /\ KeyFrom(m.b) = Some(ClaimedKey(m.a))

\* C18 as amended: a match of two pool players listed in both fetched histories is exactly
\* one event when its winner can be determined and no event when it cannot, and at most
\* one sample; an event's key is the source id if there is one, else the timestamp and the
\* sorted pair of names, the same from either side.
C18_OneEventPerMatch ==
  IsBacktest(last) =>
    \A m \in SeenFromBothSides(last) :
      /\ Cardinality(EventsUnder(last, ClaimedKey(m.a))) = (IF WinnerKnown(m.a) THEN 1 ELSE 0)
      /\ Cardinality(SamplesUnder(last, ClaimedKey(m.a))) <= 1
      /\ WinnerKnown(m.a) =>
           (KeyFrom(m.a) = Some(ClaimedKey(m.a)) /\ KeyFrom(m.b) = Some(ClaimedKey(m.a)))
      /\ ~WinnerKnown(m.a) => (KeyFrom(m.a) = None /\ KeyFrom(m.b) = None)

\* the match without an id is in both histories, listed Alpha first by one and Beta first
\* by the other: one event, and one sample of it
C18_Witness ==
  /\ IsBacktest(last)
  /\ SharedSeed \in SeenFromBothSides(last)
  /\ SharedSeed.a.players # SharedSeed.b.players
  /\ Cardinality(EventsUnder(last, <<"seed", EventAt, "alpha", "beta">>)) = 1
  /\ Cardinality(SamplesUnder(last, <<"seed", EventAt, "alpha", "beta">>)) = 1

\* the minimum of history of a call as configured
ConfiguredMinHistory(call) ==
  IF Has(Val(call).options.minHistory) THEN Max2(1, Val(Val(call).options.minHistory))
  ELSE IF Has(Val(call).options.featureLimit) THEN Max2(1, Val(Val(call).options.featureLimit))
  ELSE 10

\* the fetched records of a player of a call with a timestamp strictly below t
FetchedBefore(call, name, t) ==
  SelectSeq(Val(call).fetched[name],
            LAMBDA raw : raw.kind = "object" /\ Has(raw.ts) /\ Val(raw.ts) < t)

\* the features of a player of a call from the records strictly below t alone
FeaturesBefore(call, name, t, limit) ==
  computePlayerFeatures(FetchedBefore(call, name, t), name,
                        [limit |-> Some(limit), decayMs |-> None, anchorMs |-> Some(t)],
                        Val(call).at).stats

\* C19: no lookahead.  The features of each sample are those of the player's records played
\* strictly before the sample's event, none of them played at or after it, and historyBefore
\* returns exactly the entries of the sorted history strictly below the anchor.
C19_NoLookahead ==
  IsBacktest(last) =>
    /\ \A j \in 1..Len(DataOf(last).samples) :
         LET sample == DataOf(last).samples[j]
         IN  /\ sample.featuresA.newestMatchAt < sample.playedAt
             /\ sample.featuresB.newestMatchAt < sample.playedAt
             /\ Some(sample.featuresA) = FeaturesBefore(last, sample.playerA, sample.playedAt,
                                                        sample.targetSample)
             /\ Some(sample.featuresB) = FeaturesBefore(last, sample.playerB, sample.playedAt,
                                                        sample.targetSample)
    /\ \A name \in {"alpha", "beta"}, t \in EarlyAt..Anchor :
         historyBefore(HistoryEntries(Val(last).fetched[name]), t)
           = SelectSeq(HistoryEntries(Val(last).fetched[name]),
                       LAMBDA entry : entry.playedAt < t)

\* a sample of the match without an id while Alpha's history holds that match, the draw of
\* the same time and one earlier match: only the earlier one is in Alpha's features
C19_Witness ==
  /\ IsBacktest(last)
  /\ Range(Val(last).fetched.alpha) = {SharedSeed.a, SharedDraw.a, SharedEarly.a}
  /\ \E j \in 1..Len(DataOf(last).samples) :
       /\ DataOf(last).samples[j].matchKey = <<"seed", EventAt, "alpha", "beta">>
       /\ DataOf(last).samples[j].featuresA.sample = 1
       /\ DataOf(last).samples[j].featuresA.newestMatchAt = EarlyAt

\* the events of a call for which a player has less than the minimum of history strictly
\* before the event
ShortOfHistory(call) ==
  { j \in 1..Len(Val(call).events) :
      \E name \in {Val(call).events[j].playerA, Val(call).events[j].playerB} :
        Len(FetchedBefore(call, name, Val(call).events[j].playedAt))
          < ConfiguredMinHistory(call) }

\* the events of a call that became a sample
Sampled(call) ==
  { j \in 1..Len(Val(call).events) : SamplesUnder(call, Val(call).events[j].key) # {} }

\* the call names two distinct players at least
TwoPlayers(call) ==
  \E i, j \in 1..Len(Val(call).options.players) :
    /\ normalizeName(TrimName(Val(call).options.players[i])) # ""
    /\ normalizeName(TrimName(Val(call).options.players[j])) # ""
    /\ normalizeName(TrimName(Val(call).options.players[i]))
         # normalizeName(TrimName(Val(call).options.players[j]))

\* C20: every event is a sample, or counted in skipped.missingHistory, which it is exactly
\* when a player has less than minHistory entries strictly before it, or counted in
\* skipped.modelUnavailable; the three add up to consideredMatches; a run of two players
\* returns whatever it skips.
C20_EveryEventAccounted ==
  (Has(last) /\ Val(last).fn = "buildBacktestSamples") =>
    /\ TwoPlayers(last) <=> ~Val(last).threw
    /\ IsBacktest(last) =>
         /\ DataOf(last).consideredMatches = Len(Val(last).events)
         /\ \A i, j \in 1..Len(Val(last).events) :
              Val(last).events[i].key = Val(last).events[j].key => i = j
         /\ \A j \in 1..Len(DataOf(last).samples) :
              /\ Cardinality(SamplesUnder(last, DataOf(last).samples[j].matchKey)) = 1
              /\ EventsUnder(last, DataOf(last).samples[j].matchKey) # {}
         /\ DataOf(last).skipped.missingHistory = Cardinality(ShortOfHistory(last))
         /\ Sampled(last) \cap ShortOfHistory(last) = {}
         /\ DataOf(last).skipped.modelUnavailable
              = Cardinality((1..Len(Val(last).events)) \ (Sampled(last) \cup ShortOfHistory(last)))
         /\ DataOf(last).consideredMatches
              = Len(DataOf(last).samples) + DataOf(last).skipped.missingHistory
                  + DataOf(last).skipped.modelUnavailable

\* three events, one of each outcome
C20_Witness ==
  /\ IsBacktest(last)
  /\ DataOf(last).consideredMatches = 3
  /\ Len(DataOf(last).samples) = 1
  /\ DataOf(last).skipped.missingHistory = 1
  /\ DataOf(last).skipped.modelUnavailable = 1

(***************************************************************************)
(* predictBacktest.ts: runPredictBacktest, from the data its call of        *)
(* buildBacktestSamples resolved with.  A PredictionSample is               *)
(* [matchKey, playedAt, playerA, playerB, winner, probabilityA, confidence, *)
(* labelA], probabilityA in millionths and confidence in 1/ConfScale.       *)
(* Averages are kept as fractions <<sum, count>>.                           *)
(***************************************************************************)
\* -Math.log(p) in thousandths at p = k/20, k = 0..20; the entry for k = 0 is that of 1e-6
NegLnTable ==
  << 13816, 2996, 2303, 1897, 1609, 1386, 1204, 1050, 916, 799, 693,
     598, 511, 431, 357, 288, 223, 163, 105, 51, 0 >>

\* -Math.log(p) in thousandths, p in millionths, between the entries of the table
NegLn(p) ==
  LET step == ProbScale \div (Len(NegLnTable) - 1)
      k == p \div step
  IN  IF k + 1 >= Len(NegLnTable) THEN NegLnTable[Len(NegLnTable)]
      ELSE NegLnTable[k + 1]
           - ((NegLnTable[k + 1] - NegLnTable[k + 2]) * (p % step)) \div step

\* the terms a sample adds to the sums of computeBinaryMetrics
MetricTerms(sample) ==
  LET p == clamp(sample.probabilityA, 1, ProbScale - 1)
      y == sample.labelA
      predicted == IF 2 * p >= ProbScale THEN 1 ELSE 0
      err == (p - y * ProbScale) \div 1000
  IN  [ correct |-> IF predicted = y THEN 1 ELSE 0,
        brier |-> err * err,
        logLoss |-> IF y = 1 THEN NegLn(p) ELSE NegLn(ProbScale - p),
        confidence |-> clamp(sample.confidence, 0, ConfScale) ]

RECURSIVE MetricSums(_, _, _)
\* the loop of computeBinaryMetrics
MetricSums(samples, i, acc) ==
  IF i > Len(samples) THEN acc
  ELSE MetricSums(samples, i + 1,
                  [ correct |-> acc.correct + MetricTerms(samples[i]).correct,
                    brier |-> acc.brier + MetricTerms(samples[i]).brier,
                    logLoss |-> acc.logLoss + MetricTerms(samples[i]).logLoss,
                    confidence |-> acc.confidence + MetricTerms(samples[i]).confidence ])

\* the averages computeBinaryMetrics returns from its sums
MetricsFrom(count, sums) ==
  [ count |-> count,
    accuracy |-> <<sums.correct, count>>,
    avgConfidence |-> <<sums.confidence, count>>,
    brier |-> <<sums.brier, count>>,
    logLoss |-> <<sums.logLoss, count>> ]

\* computeBinaryMetrics(samples)
computeBinaryMetrics(samples) ==
  IF Len(samples) = 0
  THEN [ count |-> 0, accuracy |-> <<0, 1>>, avgConfidence |-> <<0, 1>>,
         brier |-> <<0, 1>>, logLoss |-> <<0, 1>> ]
  ELSE MetricsFrom(Len(samples),
                   MetricSums(samples, 1,
                              [correct |-> 0, brier |-> 0, logLoss |-> 0, confidence |-> 0]))

\* the bucket of a sample taken without the cap at the last bucket
BinIndexUncapped(sample, bucketCount) ==
  (clamp(sample.probabilityA, 0, ProbScale) * bucketCount) \div ProbScale

\* const index = Math.min(bucketCount - 1, Math.floor(clamp(p, 0, 1) * bucketCount))
BinIndex(sample, bucketCount) ==
  Min2(bucketCount - 1, (clamp(sample.probabilityA, 0, ProbScale) * bucketCount) \div ProbScale)

RECURSIVE GroupOf(_, _, _, _)
\* grouped[index]: the samples pushed to the bucket, in their order
GroupOf(samples, i, bucketCount, index) ==
  IF i > Len(samples) THEN <<>>
  ELSE IF BinIndex(samples[i], bucketCount) = index
  THEN <<samples[i]>> \o GroupOf(samples, i + 1, bucketCount, index)
  ELSE GroupOf(samples, i + 1, bucketCount, index)

RECURSIVE SumProbability(_, _)
SumProbability(group, i) ==
  IF i > Len(group) THEN 0 ELSE group[i].probabilityA + SumProbability(group, i + 1)

RECURSIVE SumLabel(_, _)
SumLabel(group, i) ==
  IF i > Len(group) THEN 0 ELSE group[i].labelA + SumLabel(group, i + 1)

\* the CalibrationBin of bucket i (0-based) holding group
BinOf(i, bucketCount, group) ==
  IF Len(group) = 0
  THEN [ start |-> <<i, bucketCount>>, end |-> <<i + 1, bucketCount>>, count |-> 0,
         meanPredicted |-> <<0, 1>>, observedWinRate |-> <<0, 1>> ]
  ELSE [ start |-> <<i, bucketCount>>, end |-> <<i + 1, bucketCount>>, count |-> Len(group),
         meanPredicted |-> <<SumProbability(group, 1), Len(group)>>,
         observedWinRate |-> <<SumLabel(group, 1), Len(group)>> ]

\* the buckets of computeCalibrationBins once bucketCount is known
BinsOf(samples, bucketCount) ==
  [ k \in 1..bucketCount |-> BinOf(k - 1, bucketCount, GroupOf(samples, 1, bucketCount, k - 1)) ]

\* computeCalibrationBins(samples, bins), bins a whole number
computeCalibrationBins(samples, bins) == BinsOf(samples, Max2(2, bins))

\* fitPlattScaling(samples): null under 10 samples, else what its Newton iteration leaves in
\* a and b, newton: None if either is not finite, Some([a, b]) in 1/WeightScale otherwise
fitPlattScaling(samples, newton) == IF Len(samples) < 10 THEN None ELSE newton

\* applyPlattScaling(samples, model)
applyPlattScaling(samples, model) ==
  [ k \in 1..Len(samples) |->
      [ samples[k] EXCEPT !.probabilityA =
          clamp(sigmoid(model.a * safeLogit(samples[k].probabilityA) + model.b * 1000,
                        WeightScale * 1000),
                1, ProbScale - 1) ] ]

\* the PredictionSample pushed for a sample that predictOutcome scored
PredictionOf(sample, outcome) ==
  [ matchKey |-> sample.matchKey,
    playedAt |-> sample.playedAt,
    playerA |-> sample.playerA,
    playerB |-> sample.playerB,
    winner |-> IF sample.labelA # 0 THEN sample.playerA ELSE sample.playerB,
    probabilityA |-> clamp(outcome.probabilityA, 1, ProbScale - 1),
    confidence |-> outcome.confidence,
    labelA |-> sample.labelA ]

\* one pass of the loop over prepared.samples, outcome what predictOutcome returned
PredictStep(acc, sample, outcome) ==
  IF ~Has(outcome) THEN [acc EXCEPT !.modelUnavailable = @ + 1]
  ELSE [acc EXCEPT !.predictions = Append(@, PredictionOf(sample, Val(outcome)))]

RECURSIVE PredictLoop(_, _, _, _, _)
\* the loop over prepared.samples; the loop does not yield, so every predictOutcome call of
\* it is given the same artifact by the store: scorer
PredictLoop(samples, i, scorer, clock, acc) ==
  IF i > Len(samples) THEN acc
  ELSE PredictLoop(samples, i + 1, scorer, clock,
         PredictStep(acc, samples[i],
           predictOutcomeWithProbability(
             MakeInput(Some(samples[i].featuresA), Some(samples[i].featuresB),
                       Some(samples[i].targetSample), Some(samples[i].playedAt)),
             scorer, clock)))

\* const trainFraction = clamp(options.trainFraction ?? 0.8, 0.5, 0.95), in hundredths
TrainFractionOf(options) == clamp(OrElse(options.trainFraction, 80), 50, 95)

\* const bins = Math.max(3, options.calibrationBins ?? 10)
CalibrationBinsOf(options) == Max2(3, OrElse(options.calibrationBins, 10))

\* Math.max(1, Math.min(length - 1, Math.floor(length * trainFraction)))
SplitIndex(length, trainFraction) ==
  Max2(1, Min2(length - 1, (length * trainFraction) \div 100))

\* const train = hasSplit ? predictions.slice(0, splitIndex) : predictions
TrainOf(predictions, splitIndex) ==
  IF Len(predictions) >= 2 THEN SubSeq(predictions, 1, splitIndex) ELSE predictions

\* the test split starting one prediction late
TestOfSkipBoundary(predictions, splitIndex) ==
  IF Len(predictions) >= 2 THEN SubSeq(predictions, splitIndex + 2, Len(predictions))
  ELSE predictions

\* const test = hasSplit ? predictions.slice(splitIndex) : predictions
TestOf(predictions, splitIndex) ==
  IF Len(predictions) >= 2 THEN SubSeq(predictions, splitIndex + 1, Len(predictions))
  ELSE predictions

\* the calibration fitted whenever fitPlattScaling accepts the train split
CalibrationOfAnyTrain(train, newton) ==
  [model |-> fitPlattScaling(train, newton), fitted |-> Some(train)]

\* const model = train.length >= 20 ? fitPlattScaling(train) : null; fitted is the list
\* handed to fitPlattScaling, None if it was not called
CalibrationOf(train, newton) ==
  IF Len(train) >= 20 THEN [model |-> fitPlattScaling(train, newton), fitted |-> Some(train)]
  ELSE [model |-> None, fitted |-> None]

\* const calibratedTest = model ? applyPlattScaling(test, model) : test; applied is the list
\* handed to applyPlattScaling, None if it was not called
CalibratedTest(test, model) ==
  IF Has(model) THEN [samples |-> applyPlattScaling(test, Val(model)), applied |-> Some(test)]
  ELSE [samples |-> test, applied |-> None]

\* the BacktestReport, and what an observer of the run saw: the sorted predictions, the two
\* splits, and the lists handed to fitPlattScaling and applyPlattScaling
ReportOf(prepared, acc, predictions, train, test, bins, calibration) ==
  [ report |->
      [ players |-> prepared.players,
        consideredMatches |-> prepared.consideredMatches,
        eligibleMatches |-> Len(predictions),
        samples |-> Len(predictions),
        trainSamples |-> Len(train),
        testSamples |-> Len(test),
        skipped |-> [prepared.skipped EXCEPT !.modelUnavailable = acc.modelUnavailable],
        raw |-> [ train |-> computeBinaryMetrics(train),
                  test |-> computeBinaryMetrics(test),
                  calibration |-> computeCalibrationBins(test, bins) ],
        calibrated |->
          [ test |-> computeBinaryMetrics(CalibratedTest(test, calibration.model).samples),
            calibration |->
              computeCalibrationBins(CalibratedTest(test, calibration.model).samples, bins),
            model |-> calibration.model ] ],
    predictions |-> predictions,
    train |-> train,
    test |-> test,
    fitted |-> calibration.fitted,
    applied |-> CalibratedTest(test, calibration.model).applied ]

\* runPredictBacktest once the predictions are sorted
SplitAndReport(prepared, options, acc, predictions, newton) ==
  ReportOf(prepared, acc, predictions,
           TrainOf(predictions, SplitIndex(Len(predictions), TrainFractionOf(options))),
           TestOf(predictions, SplitIndex(Len(predictions), TrainFractionOf(options))),
           CalibrationBinsOf(options),
           CalibrationOf(TrainOf(predictions,
                                 SplitIndex(Len(predictions), TrainFractionOf(options))),
                         newton))

\* runPredictBacktest once its loop has ended
ReportAfterLoop(prepared, options, acc, newton) ==
  SplitAndReport(prepared, options, acc, SortAsc(acc.predictions), newton)

\* runPredictBacktest(options), buildBacktestSamples having resolved with prepared and the
\* store handing out scorer
runPredictBacktest(options, prepared, scorer, newton, clock) ==
  ReportAfterLoop(prepared, options,
                  PredictLoop(prepared.samples, 1, scorer, clock,
                              [ predictions |-> <<>>,
                                modelUnavailable |-> prepared.skipped.modelUnavailable ]),
                  newton)

(***************************************************************************)
(* The prepared data the model draws: n samples of Alpha against Beta, in   *)
(* the order of the events, which is not the order of their times when two  *)
(* histories date the same match differently.                               *)
(***************************************************************************)
\* the largest number of prepared samples
MaxPredictions == 25

\* sample k of the pattern: "mixed" has times out of order and repeated, "level" and "upset"
\* one time; in "upset" the stronger form wins but for every seventh match
PreparedSample(k, pattern) ==
  [ matchKey |-> <<"id", k>>,
    playedAt |-> IF pattern = "mixed" THEN Anchor - ((k * 3) % 5) ELSE Anchor - 1,
    playerA |-> "alpha",
    playerB |-> "beta",
    labelA |-> IF pattern = "mixed" THEN k % 2
               ELSE IF pattern = "level" THEN (IF k % 3 = 0 THEN 0 ELSE 1)
               ELSE IF k % 7 = 0 THEN 1 - (k % 2) ELSE k % 2,
    targetSample |-> 10,
    featuresA |-> IF k % 2 = 1 THEN StatsStrong ELSE StatsWeak,
    featuresB |-> IF pattern # "upset" /\ k % 3 = 1 THEN makeStats
                  ELSE IF k % 2 = 1 THEN StatsWeak ELSE StatsStrong ]

PreparedOf(n, pattern) ==
  [ players |-> <<"Alpha", "Beta">>,
    consideredMatches |-> n,
    skipped |-> [ missingParticipants |-> 0, missingWinner |-> 0, missingHistory |-> 0,
                  modelUnavailable |-> 0 ],
    samples |-> [k \in 1..n |-> PreparedSample(k, pattern)] ]

PreparedSets == { PreparedOf(n, pattern) : n \in 0..MaxPredictions, pattern \in {"mixed", "level"} }

\* the options the tail of runPredictBacktest reads
ReportOptions ==
  { [calibrationBins |-> None, trainFraction |-> None],
    [calibrationBins |-> Some(2), trainFraction |-> Some(50)],
    [calibrationBins |-> Some(5), trainFraction |-> Some(95)],
    [calibrationBins |-> None, trainFraction |-> Some(20)],
    [calibrationBins |-> Some(4), trainFraction |-> Some(99)] }

\* what the Newton iteration of fitPlattScaling can leave behind
NewtonOutcomes == { None, Some([a |-> 10, b |-> 0]), Some([a |-> 15, b |-> -2]) }

ReportCall(options, prepared, newton, at, r) ==
  [ fn |-> "runPredictBacktest", options |-> options, prepared |-> prepared,
    newton |-> newton, at |-> at, report |-> r.report, predictions |-> r.predictions,
    train |-> r.train, test |-> r.test, fitted |-> r.fitted, applied |-> r.applied ]

\* runPredictBacktest(options): the store is asked by the first predictOutcome call
RunPredictBacktest(options, prepared, newton) ==
  LET g == getPredictModel(env, cachedModel, cachedPath, files)
  IN  /\ IF Len(prepared.samples) > 0 THEN StoreCalled(g, "predictOutcome")
         ELSE UNCHANGED <<cachedModel, cachedPath, lookup, loaded>>
      /\ prev' = last
      /\ last' = Some(ReportCall(options, prepared, newton, now,
                                 runPredictBacktest(options, prepared, g.model, newton, now)))
      /\ UNCHANGED <<files, env, now>>

(***************************************************************************)
(* Report: runPredictBacktest, once, on drawn prepared data.                *)
(***************************************************************************)
ReportFirst ==
  /\ ~Has(last)
  /\ \E options \in ReportOptions, prepared \in PreparedSets, newton \in NewtonOutcomes :
       RunPredictBacktest(options, prepared, newton)

\* the longest list handed to computeCalibrationBins on its own
MaxBinSamples == 3

\* samples at the ends of [0, 1], on the edges of fifths and thirds and next to them
BinSamples ==
  { [probabilityA |-> 0, labelA |-> 0],
    [probabilityA |-> 199999, labelA |-> 1],
    [probabilityA |-> 200000, labelA |-> 0],
    [probabilityA |-> 500000, labelA |-> 1],
    [probabilityA |-> 666667, labelA |-> 0],
    [probabilityA |-> ProbScale, labelA |-> 1] }

BinLists == UNION { [1..n -> BinSamples] : n \in 0..MaxBinSamples }

\* the bin counts asked for; the default of the parameter is 10
BinCounts == {-1, 0, 1, 2, 3, 5, 10}

\* computeCalibrationBins(samples, bins)
ComputeCalibrationBins(samples, bins) ==
  /\ prev' = last
  /\ last' = Some([ fn |-> "computeCalibrationBins", samples |-> samples, bins |-> bins,
                    result |-> computeCalibrationBins(samples, bins) ])
  /\ UNCHANGED <<storeVars, now>>

BinsFirst ==
  /\ ~Has(last)
  /\ \E samples \in BinLists, bins \in BinCounts : ComputeCalibrationBins(samples, bins)

NextReport == ReportFirst \/ BinsFirst

SpecReport == Init /\ [][NextReport]_vars

(***************************************************************************)
(* Claims about runPredictBacktest.                                         *)
(***************************************************************************)
\* the call is a runPredictBacktest
IsReport(call) == Has(call) /\ Val(call).fn = "runPredictBacktest"

\* how often a prediction of the match occurs in a list
Occurrences(list, key) == Cardinality({ i \in 1..Len(list) : list[i].matchKey = key })

\* the two splits are disjoint, hold every prediction once, and the counts add up
IsPartition(r) ==
  /\ r.report.trainSamples + r.report.testSamples = r.report.samples
  /\ r.report.trainSamples = Len(r.train)
  /\ r.report.testSamples = Len(r.test)
  /\ r.report.samples = Len(r.prepared.samples)
  /\ \A k \in 1..Len(r.prepared.samples) :
       Occurrences(r.train, r.prepared.samples[k].matchKey)
         + Occurrences(r.test, r.prepared.samples[k].matchKey) = 1

\* no train prediction is played later than a test prediction
TrainBeforeTest(r) ==
  \A i \in 1..Len(r.train), j \in 1..Len(r.test) : r.train[i].playedAt <= r.test[j].playedAt

\* C21 as stated: for every number of predictions the train and test sets are disjoint,
\* together hold each prediction exactly once (trainSamples + testSamples = samples), and
\* every train prediction is played no later than every test prediction
C21_Original ==
  IsReport(last) => IsPartition(Val(last)) /\ TrainBeforeTest(Val(last))

\* C21, amended: with two or more predictions the train set is a non-empty prefix and the
\* test set the non-empty rest of the chronologically sorted predictions, disjoint and
\* holding each prediction exactly once, no train prediction played later than a test
\* prediction; with fewer than two predictions both sets are the whole list
C21_SplitIsPartition ==
  IsReport(last) =>
    IF Len(Val(last).prepared.samples) >= 2
    THEN /\ IsPartition(Val(last))
         /\ TrainBeforeTest(Val(last))
         /\ Len(Val(last).train) >= 1
         /\ Len(Val(last).test) >= 1
         /\ Val(last).train \o Val(last).test = Val(last).predictions
    ELSE /\ Val(last).train = Val(last).predictions
         /\ Val(last).test = Val(last).predictions
         /\ Len(Val(last).predictions) = Len(Val(last).prepared.samples)

\* a run over prepared samples whose times are out of order, split in the middle
C21_Witness ==
  /\ IsReport(last)
  /\ Len(Val(last).prepared.samples) = 5
  /\ Val(last).prepared.samples[2].playedAt > Val(last).prepared.samples[3].playedAt
  /\ Len(Val(last).train) = 2
  /\ Len(Val(last).test) = 3

\* C24: with fewer than 20 train predictions no calibration is fitted: calibrated.model is
\* null and the calibrated test metrics and bins equal the raw ones; with 20 or more the
\* calibration is fitted on the train split only and applied to the test split only
C24_CalibrationGate ==
  IsReport(last) =>
    IF Len(Val(last).train) < 20
    THEN /\ Val(last).fitted = None
         /\ Val(last).applied = None
         /\ Val(last).report.calibrated.model = None
         /\ Val(last).report.calibrated.test = Val(last).report.raw.test
         /\ Val(last).report.calibrated.calibration = Val(last).report.raw.calibration
    ELSE /\ Val(last).fitted = Some(Val(last).train)
         /\ Val(last).report.calibrated.model = Val(last).newton
         /\ IF Has(Val(last).report.calibrated.model)
            THEN /\ Val(last).applied = Some(Val(last).test)
                 /\ Val(last).report.calibrated.test =
                      computeBinaryMetrics(
                        applyPlattScaling(Val(last).test, Val(Val(last).report.calibrated.model)))
                 /\ Val(last).report.raw.test = computeBinaryMetrics(Val(last).test)
            ELSE /\ Val(last).applied = None
                 /\ Val(last).report.calibrated.test = Val(last).report.raw.test

\* a run whose train split has exactly 20 predictions and whose fitted calibration moves the
\* test metrics
C24_Witness ==
  /\ IsReport(last)
  /\ Len(Val(last).train) = 20
  /\ Has(Val(last).report.calibrated.model)
  /\ Val(last).fitted = Some(Val(last).train)
  /\ Val(last).report.calibrated.test # Val(last).report.raw.test

\* the call is a computeCalibrationBins
IsBins(call) == Has(call) /\ Val(call).fn = "computeCalibrationBins"

\* probability p lies in bin i (1-based) of n equal-width bins: in [(i-1)/n, i/n), or is 1
\* and the bin is the last
InBin(p, i, n) ==
  /\ (i - 1) * ProbScale <= p * n
  /\ (p * n < i * ProbScale \/ (i = n /\ p = ProbScale))

RECURSIVE SumCounts(_, _)
SumCounts(bins, i) == IF i > Len(bins) THEN 0 ELSE bins[i].count + SumCounts(bins, i + 1)

\* C25: computeCalibrationBins returns max(2, bins) equal-width bins covering [0,1], counts
\* each sample in exactly one bin (bin i holds [i/N, (i+1)/N), probability 1 in the last)
\* and the bin counts sum to the number of samples
C25_BinsPreserveTotals ==
  IsBins(last) =>
    /\ Len(Val(last).result) = Max2(2, Val(last).bins)
    /\ \A i \in 1..Len(Val(last).result) :
         /\ Val(last).result[i].start = <<i - 1, Len(Val(last).result)>>
         /\ Val(last).result[i].end = <<i, Len(Val(last).result)>>
         /\ Val(last).result[i].count =
              Cardinality({ k \in 1..Len(Val(last).samples) :
                            InBin(Val(last).samples[k].probabilityA, i, Len(Val(last).result)) })
    /\ \A k \in 1..Len(Val(last).samples) :
         Cardinality({ i \in 1..Len(Val(last).result) :
                       InBin(Val(last).samples[k].probabilityA, i, Len(Val(last).result)) }) = 1
    /\ SumCounts(Val(last).result, 1) = Len(Val(last).samples)

\* five bins asked for, a sample of probability 1 in the last and one on an edge in the
\* bin that starts there
C25_Witness ==
  /\ IsBins(last)
  /\ Val(last).bins = 5
  /\ Len(Val(last).samples) = 3
  /\ Val(last).samples[1].probabilityA = ProbScale
  /\ Val(last).samples[2].probabilityA = 200000
  /\ Val(last).samples[3].probabilityA = 199999
  /\ Val(last).result[5].count = 1
  /\ Val(last).result[2].count = 1
  /\ Val(last).result[1].count = 1

(***************************************************************************)
(* scripts/predictTrain.ts: main, from the parsed arguments                 *)
(* [players, trainFraction, modelOut, forceSave] and the data its call of   *)
(* buildBacktestSamples resolved with.  The gradient descent of             *)
(* trainLogistic is not computed: trained is the LogisticModel it returns,  *)
(* [intercept, weights] in 1/WeightScale.                                   *)
(***************************************************************************)
\* the model scoreRows scores with: Object.keys(model.weights).filter(isFeatureName)
RowModel(trained) ==
  [ features |-> featureNames, intercept |-> trained.intercept, weights |-> trained.weights,
    calibration |-> None ]

\* scoreRows(rows, model), the rows built by toRow from the samples
scoreRows(samples, trained) ==
  [ k \in 1..Len(samples) |->
      [ matchKey |-> samples[k].matchKey,
        playedAt |-> samples[k].playedAt,
        playerA |-> samples[k].playerA,
        playerB |-> samples[k].playerB,
        winner |-> IF samples[k].labelA # 0 THEN samples[k].playerA ELSE samples[k].playerB,
        probabilityA |->
          scoreModelProbabilityA(RowModel(trained), samples[k].featuresA, samples[k].featuresB),
        confidence |-> ConfScale \div 2,
        labelA |-> samples[k].labelA ] ]

\* scoreHeuristic(samples)
scoreHeuristic(samples, clock) ==
  PredictLoop(samples, 1, None, clock, [predictions |-> <<>>, modelUnavailable |-> 0]).predictions

\* x < y for fractions with positive denominators
FracLess(x, y) == x[1] * y[2] < y[1] * x[2]

\* improved with one of the two metrics being enough
ImprovedOnEither(trainedMetrics, heuristicMetrics) ==
  \/ FracLess(trainedMetrics.logLoss, heuristicMetrics.logLoss)
  \/ FracLess(trainedMetrics.brier, heuristicMetrics.brier)

\* const improved = trainedMetrics.logLoss < heuristicMetrics.logLoss
\*                  && trainedMetrics.brier < heuristicMetrics.brier
Improved(trainedMetrics, heuristicMetrics) ==
  /\ FracLess(trainedMetrics.logLoss, heuristicMetrics.logLoss)
  /\ FracLess(trainedMetrics.brier, heuristicMetrics.brier)

\* the file JSON.stringify(artifact) leaves, as validateModel reads it
ArtifactFile(trained, calibration) ==
  [ kind |-> "json", isObject |-> TRUE, intercept |-> Some(trained.intercept),
    featuresIsArray |-> TRUE,
    features |-> [i \in 1..Len(featureNames) |-> [str |-> TRUE, text |-> featureNames[i]]],
    hasWeights |-> TRUE,
    weights |-> [f \in FeatureNameSet |-> Some(trained.weights[f])],
    calibration |-> IF Has(calibration)
                    THEN Some([a |-> Some(Val(calibration).a), b |-> Some(Val(calibration).b)])
                    ELSE None ]

\* path.resolve(args.modelOut ?? path.join('data', 'predict-model.json'))
OutputPath(args) == pathResolve(OrElse(args.modelOut, "data/predict-model.json"))

\* the end of main: the summary is printed, then the artifact is written or not
SaveOrNot(args, trained, calibration, heuristicMetrics, trainedMetrics, improved) ==
  [ exit |-> IF ~improved /\ ~args.forceSave THEN "notSaved" ELSE "saved",
    write |-> IF ~improved /\ ~args.forceSave THEN None
              ELSE Some([path |-> OutputPath(args), file |-> ArtifactFile(trained, calibration)]),
    improved |-> improved,
    heuristicMetrics |-> heuristicMetrics,
    trainedMetrics |-> trainedMetrics ]

\* main once the two metrics are computed
CompareAndSave(args, trained, calibration, heuristicMetrics, trainedMetrics) ==
  SaveOrNot(args, trained, calibration, heuristicMetrics, trainedMetrics,
            Improved(trainedMetrics, heuristicMetrics))

\* main once the calibration is fitted on the raw train predictions
EvaluateOnTest(args, testSamples, trained, calibration, clock) ==
  CompareAndSave(args, trained, calibration,
                 computeBinaryMetrics(scoreHeuristic(testSamples, clock)),
                 computeBinaryMetrics(
                   CalibratedTest(scoreRows(testSamples, trained), calibration).samples))

\* main once the samples are split
TrainAndEvaluate(args, trainSamples, testSamples, trained, newton, clock) ==
  EvaluateOnTest(args, testSamples, trained,
                 fitPlattScaling(scoreRows(trainSamples, trained), newton), clock)

\* main once the samples are sorted
SplitAndTrain(args, chronological, splitIndex, trained, newton, clock) ==
  TrainAndEvaluate(args, SubSeq(chronological, 1, splitIndex),
                   SubSeq(chronological, splitIndex + 1, Len(chronological)),
                   trained, newton, clock)

\* a run of main that ends before anything is trained
EndsEarly(exit) ==
  [ exit |-> exit, write |-> None, improved |-> FALSE,
    heuristicMetrics |-> computeBinaryMetrics(<<>>),
    trainedMetrics |-> computeBinaryMetrics(<<>>) ]

\* main(): prepared is what buildBacktestSamples resolves with for two or more distinct
\* players
main(args, prepared, trained, newton, clock) ==
  IF Len(args.players) = 0 THEN EndsEarly("usage")
  ELSE IF Len(dedupePlayers(args.players)) < 2 THEN EndsEarly("threw")
  ELSE IF Len(prepared.samples) < 40 THEN EndsEarly("threw")
  ELSE SplitAndTrain(args, SortAsc(prepared.samples),
                     SplitIndex(Len(prepared.samples), TrainFractionOf(args)),
                     trained, newton, clock)

(***************************************************************************)
(* The runs of the trainer the model draws.                                 *)
(***************************************************************************)
\* the largest number of prepared samples a trainer run is given
MaxTrainSamples == 41

AllWeights(w) == [f \in FeatureNameSet |-> w]

\* what the descent can return: nothing learnt, the win rates weighted heavily, the win
\* rates weighted against
TrainedModels ==
  { [intercept |-> 0, weights |-> AllWeights(0)],
    [intercept |-> 0,
     weights |-> [AllWeights(0) EXCEPT !["winrate_delta"] = 100,
                                       !["recency_winrate_delta"] = 100]],
    [intercept |-> 2,
     weights |-> [AllWeights(0) EXCEPT !["winrate_delta"] = -30]] }

TrainArgs ==
  { [players |-> p, trainFraction |-> None, modelOut |-> out, forceSave |-> force] :
      p \in {<<"Alpha", "Beta">>}, out \in {None, Some("alt.json")}, force \in BOOLEAN }

\* runs that end before training: no players, one distinct player
EarlyArgs ==
  { [players |-> p, trainFraction |-> None, modelOut |-> None, forceSave |-> TRUE] :
      p \in {<< >>, <<"Alpha", "ALPHA">>} }

TrainSets ==
  { PreparedOf(n, pattern) : n \in (MaxTrainSamples - 2)..MaxTrainSamples,
                             pattern \in {"mixed", "upset"} }

\* what an observer of a run of main saw: the disk before the run among it
TrainCall(args, prepared, trained, before, r) ==
  [ fn |-> "main", args |-> args, samples |-> Len(prepared.samples), trained |-> trained,
    before |-> before, exit |-> r.exit, write |-> r.write, improved |-> r.improved,
    heuristicMetrics |-> r.heuristicMetrics, trainedMetrics |-> r.trainedMetrics ]

\* fs.writeFileSync(outputPath, JSON.stringify(artifact, null, 2)), if the run came to it
WriteArtifact(write) ==
  files' = IF Has(write) THEN [files EXCEPT ![Val(write).path] = Val(write).file] ELSE files

\* a run of main
Main(args, prepared, trained, newton) ==
  /\ prev' = last
  /\ last' = Some(TrainCall(args, prepared, trained, files,
                            main(args, prepared, trained, newton, now)))
  /\ WriteArtifact(Val(last').write)
  /\ UNCHANGED <<env, cachedModel, cachedPath, now, lookup, loaded>>

(***************************************************************************)
(* Train: the artifact files are put in place or not, then main runs once.  *)
(***************************************************************************)
TrainInstall ==
  /\ ~Has(last)
  /\ \E path \in Paths : WriteFile(path, FileValid)

TrainFirst ==
  /\ ~Has(last)
  /\ \E args \in TrainArgs, prepared \in TrainSets, trained \in TrainedModels,
        newton \in NewtonOutcomes :
       Main(args, prepared, trained, newton)

TrainEarly ==
  /\ ~Has(last)
  /\ \E args \in EarlyArgs : Main(args, PreparedOf(0, "mixed"), CHOOSE t \in TrainedModels : TRUE, None)

NextTrain == TrainInstall \/ TrainFirst \/ TrainEarly

SpecTrain == Init /\ [][NextTrain]_vars

(***************************************************************************)
(* Claims about the trainer.                                                *)
(***************************************************************************)
\* the call is a run of the trainer
IsTrain(call) == Has(call) /\ Val(call).fn = "main"

\* the trained model is strictly better than the heuristic on both test metrics
BeatsHeuristic(r) ==
  /\ FracLess(r.trainedMetrics.brier, r.heuristicMetrics.brier)
  /\ FracLess(r.trainedMetrics.logLoss, r.heuristicMetrics.logLoss)

\* the disk differs from the disk before the run exactly in a well-formed artifact at the
\* output path
WroteArtifact(r) ==
  /\ \A p \in Paths : p # OutputPath(r.args) => files[p] = r.before[p]
  /\ files[OutputPath(r.args)].kind = "json"
  /\ files[OutputPath(r.args)].intercept = Some(r.trained.intercept)
  /\ Has(validateModel(files[OutputPath(r.args)]))

\* C22 as stated: the artifact file is written if and only if the trained model beats the
\* heuristic on both test metrics or force-save was given; in every other run the disk is
\* left as it was
C22_Original ==
  IsTrain(last) =>
    IF BeatsHeuristic(Val(last)) \/ Val(last).args.forceSave
    THEN WroteArtifact(Val(last))
    ELSE files = Val(last).before

\* C22, amended: a run that has players, two distinct ones, and 40 or more samples writes
\* the artifact if and only if the trained model beats the heuristic on both test metrics
\* or force-save was given; every other run, among them a run with force-save that ends
\* before training, leaves the disk as it was
C22_SavedIffBetterOrForced ==
  IsTrain(last) =>
    IF /\ Len(dedupePlayers(Val(last).args.players)) >= 2
       /\ Val(last).samples >= 40
       /\ (BeatsHeuristic(Val(last)) \/ Val(last).args.forceSave)
    THEN WroteArtifact(Val(last)) /\ Val(last).exit = "saved"
    ELSE files = Val(last).before /\ Val(last).exit # "saved"

\* a run without force-save whose trained model is better on one metric only leaves the
\* artifact that was there
C22_Witness ==
  /\ IsTrain(last)
  /\ ~Val(last).args.forceSave
  /\ Val(last).samples >= 40
  /\ FracLess(Val(last).trainedMetrics.brier, Val(last).heuristicMetrics.brier)
       # FracLess(Val(last).trainedMetrics.logLoss, Val(last).heuristicMetrics.logLoss)
  /\ files[OutputPath(Val(last).args)] = FileValid

(***************************************************************************)
(* predictBacktest.ts: buildBacktestSamples step by step.  The function     *)
(* runs until it awaits a fetch; it goes on when the provider resolves or   *)
(* rejects that fetch.  A run is                                            *)
(*   [fn, options, pool, phase, started, inFlight, completed, failed,       *)
(*    histories, error, data, eventsAfter]                                  *)
(* pool the deduplicated players, phase "fetching", "returned" or           *)
(* "rejected", started the players whose fetch was called and completed     *)
(* those whose fetch resolved, in order, inFlight the players whose fetch   *)
(* is pending, failed those whose fetch the provider rejected, eventsAfter  *)
(* the fetches completed when collectMatchEvents was called.                *)
(***************************************************************************)
\* every fetch called at once, as Promise.all over the pool would
FetchesToStartAll(run) ==
  IF Len(run.started) = 0 THEN [i \in 1..Len(run.pool) |-> run.pool[i]] ELSE <<>>

\* the for loop awaits each fetchUserMatches before the next pass: the fetch of the next
\* player is called when none is pending
FetchesToStart(run) ==
  IF run.inFlight = {} /\ Len(run.started) < Len(run.pool)
  THEN <<run.pool[Len(run.started) + 1]>>
  ELSE <<>>

\* const collected = collectMatchEvents(histories, playerSet) and the rest of the function
Reconstructed(run, clock) ==
  [ run EXCEPT
      !.phase = "returned",
      !.eventsAfter = Some(run.completed),
      !.data = CollectAndSample(run.pool, run.histories,
                                Max2(1, OrElse(run.options.featureLimit, 10)),
                                MinHistoryOf(run.options,
                                             Max2(1, OrElse(run.options.featureLimit, 10))),
                                clock).data ]

\* the call of the fetches that are due
WithFetchesStarted(run, players) ==
  [ run EXCEPT !.started = @ \o players,
               !.inFlight = @ \cup { players[i] : i \in 1..Len(players) } ]

\* the function runs on to its next await or to its end
RunOn(run, clock) ==
  IF Len(FetchesToStart(run)) > 0 THEN WithFetchesStarted(run, FetchesToStart(run))
  ELSE IF run.inFlight = {} THEN Reconstructed(run, clock)
  ELSE run

\* buildBacktestSamples(options) up to its first await
RunStart(options, clock) ==
  IF Len(dedupePlayers(options.players)) < 2
  THEN [ fn |-> "backtestRun", options |-> options, pool |-> dedupePlayers(options.players),
         phase |-> "rejected", started |-> <<>>, inFlight |-> {}, completed |-> <<>>,
         failed |-> {}, histories |-> <<>>, error |-> Some("players"), data |-> None,
         eventsAfter |-> None ]
  ELSE RunOn([ fn |-> "backtestRun", options |-> options,
               pool |-> dedupePlayers(options.players),
               phase |-> "fetching", started |-> <<>>, inFlight |-> {}, completed |-> <<>>,
               failed |-> {}, histories |-> <<>>, error |-> None, data |-> None,
               eventsAfter |-> None ], clock)

\* the fetch of player resolves with matches: the history is set and the loop goes on
AfterFetch(run, player, matches, clock) ==
  RunOn([ run EXCEPT !.inFlight = @ \ {player},
                     !.completed = Append(@, player),
                     !.histories = HistorySet(@, normalizeName(player), HistoryEntries(matches)) ],
        clock)

\* a rejected fetch taken as an empty history
AfterRejectionSkipped(run, player, error, clock) ==
  RunOn([ run EXCEPT !.inFlight = @ \ {player},
                     !.completed = Append(@, player),
                     !.histories = HistorySet(@, normalizeName(player), <<>>) ],
        clock)

\* the fetch of player rejects: nothing catches it, the function rejects with the error
AfterRejection(run, player, error, clock) ==
  [ run EXCEPT !.inFlight = @ \ {player}, !.phase = "rejected", !.error = Some(error) ]

(***************************************************************************)
(* The runs the model draws.                                                *)
(***************************************************************************)
PlayersThree == <<"Alpha", "Beta", "Gamma">>

RunOptions ==
  { [players |-> PlayersAsGiven, featureLimit |-> None, minHistory |-> Some(1)],
    [players |-> PlayersRespelled, featureLimit |-> None, minHistory |-> Some(1)],
    [players |-> PlayersThree, featureLimit |-> None, minHistory |-> Some(1)],
    [players |-> PlayersThree, featureLimit |-> Some(1), minHistory |-> None],
    OnePlayerOptions }

\* what the provider can resolve a fetch of the player with
FetchResults(norm) ==
  IF norm = "alpha"
  THEN { <<>>, <<SharedSeed.a, SharedEarly.a>>, <<SharedDelta.a, SharedDraw.a, SharedEarly.a>> }
  ELSE IF norm = "beta"
  THEN { <<>>, <<SharedSeed.b, SharedEarly.b>>, <<SharedDelta.b, SharedEarly.b>> }
  ELSE { <<>>, <<RawNull>>,
         <<makeMatch(Some("g2"), PlayerGamma, PlayerAlpha, None, EarlyAt, Some(0))>> }

\* what the provider can reject a fetch with: RateLimitError, any other error
FetchErrors == {"rateLimit", "other"}

\* buildBacktestSamples(options) is called
BeginBacktest(options) ==
  /\ ~Has(last)
  /\ prev' = last
  /\ last' = Some(RunStart(options, now))
  /\ UNCHANGED <<storeVars, now>>

\* the provider resolves a pending fetch
FetchResolves(player, matches) ==
  /\ Has(last)
  /\ Val(last).fn = "backtestRun"
  /\ Val(last).phase = "fetching"
  /\ player \in Val(last).inFlight
  /\ prev' = last
  /\ last' = Some(AfterFetch(Val(last), player, matches, now))
  /\ UNCHANGED <<storeVars, now>>

\* the provider rejects a pending fetch
FetchRejects(player, error) ==
  /\ Has(last)
  /\ Val(last).fn = "backtestRun"
  /\ Val(last).phase = "fetching"
  /\ player \in Val(last).inFlight
  /\ prev' = last
  /\ last' = Some([ AfterRejection(Val(last), player, error, now)
                      EXCEPT !.failed = @ \cup {player} ])
  /\ UNCHANGED <<storeVars, now>>

(***************************************************************************)
(* Fetch: one run of buildBacktestSamples against a provider that resolves  *)
(* or rejects each fetch.                                                   *)
(***************************************************************************)
NextFetch ==
  \/ \E options \in RunOptions : BeginBacktest(options)
  \/ \E player \in {"Alpha", " Alpha ", "Beta", "Gamma"} :
       \E matches \in FetchResults(normalizeName(player)) : FetchResolves(player, matches)
  \/ \E player \in {"Alpha", " Alpha ", "Beta", "Gamma"}, error \in FetchErrors :
       FetchRejects(player, error)

SpecFetch == Init /\ [][NextFetch]_vars

(***************************************************************************)
(* Claims about the run of buildBacktestSamples.                            *)
(***************************************************************************)
\* a run of buildBacktestSamples is under way or over
IsRun(call) == Has(call) /\ Val(call).fn = "backtestRun"

\* the run names two distinct players at least
RunHasTwoPlayers(run) ==
  \E i, j \in 1..Len(run.options.players) :
    /\ normalizeName(TrimName(run.options.players[i])) # ""
    /\ normalizeName(TrimName(run.options.players[j])) # ""
    /\ normalizeName(TrimName(run.options.players[i]))
         # normalizeName(TrimName(run.options.players[j]))

SetToSeqOfOne(S) == IF S = {} THEN <<>> ELSE <<CHOOSE x \in S : TRUE>>

\* the fetches called are the first players of the pool, in its order
StartedInPoolOrder(run) ==
  /\ Len(run.started) <= Len(run.pool)
  /\ run.started = SubSeq(run.pool, 1, Len(run.started))

\* C28: the histories are fetched one after another in pool order: a fetch is called only
\* when every fetch called before it has completed, at most one fetch is pending at any
\* time, and no event is reconstructed before every fetch has completed
C28_FetchesAreSequential ==
  IsRun(last) =>
    /\ StartedInPoolOrder(Val(last))
    /\ Cardinality(Val(last).inFlight) <= 1
    /\ Val(last).phase = "fetching" =>
         /\ Val(last).started = Val(last).completed \o SetToSeqOfOne(Val(last).inFlight)
         /\ Val(last).eventsAfter = None
         /\ Val(last).data = None
    /\ Val(last).phase = "returned" =>
         /\ Val(last).eventsAfter = Some(Val(last).pool)
         /\ Val(last).completed = Val(last).pool
         /\ Val(last).inFlight = {}
    /\ Val(last).phase = "rejected" => Val(last).eventsAfter = None

\* a run of three players with the second fetch pending: the first has completed, the
\* third is not called
C28_Witness ==
  /\ IsRun(last)
  /\ Val(last).pool = PlayersThree
  /\ Val(last).phase = "fetching"
  /\ Val(last).completed = <<"Alpha">>
  /\ Val(last).inFlight = {"Beta"}
  /\ Val(last).started = <<"Alpha", "Beta">>

(***************************************************************************)
(* The two winner rules on one record: normalizeEvent of predictBacktest.ts *)
(* and mapMatchForPlayer of predictFeatures.ts for either player.           *)
(***************************************************************************)
\* Beta listed by nickname only
PlayerBetaNoUuid == [uuid |-> None, nick |-> "Beta", elo |-> Some(1550)]

\* a record of a match of one and two with the winner id and the two rating changes given
WinnerMatch(one, two, winner, changeOne, changeTwo) ==
  [ makeMatch(Some("m1"), one, two, winner, EventAt, None) EXCEPT
      !.changes = << [uuid |-> one.uuid, change |-> changeOne],
                     [uuid |-> two.uuid, change |-> changeTwo] >> ]

\* the rating changes a record lists for a player: none, a loss, nothing, small and large gains
WinnerChanges == {None, Some(-10), Some(0), Some(3), Some(10)}

\* the winner ids: none, Alpha's, Beta's, that of a player who is not one of the two
WinnerIds == {None, Some("ua"), Some("ub"), Some("ug")}

WinnerMatches ==
  { WinnerMatch(one, two, winner, changeOne, changeTwo) :
      one \in {PlayerAlpha, PlayerAlphaNoUuid}, two \in {PlayerBeta, PlayerBetaNoUuid},
      winner \in WinnerIds, changeOne \in WinnerChanges, changeTwo \in WinnerChanges }

\* the record is read by the backtest and by feature extraction for either player
ResolveBothWays(match) ==
  /\ prev' = last
  /\ last' = Some([ fn |-> "winnerRules", match |-> match,
                    event |-> normalizeEvent(match, {"alpha", "beta"}),
                    alpha |-> mapMatchForPlayer(match, "alpha"),
                    beta |-> mapMatchForPlayer(match, "beta") ])
  /\ UNCHANGED <<storeVars, now>>

WinnerFirst ==
  /\ ~Has(last)
  /\ \E match \in WinnerMatches : ResolveBothWays(match)

NextWinner == WinnerFirst

SpecWinner == Init /\ [][NextWinner]_vars

(***************************************************************************)
(* Claims about the two winner rules.                                       *)
(***************************************************************************)
\* the record was read both ways and the backtest resolved a winner
HasWinner(call) ==
  Has(call) /\ Val(call).fn = "winnerRules" /\ Val(call).event.kind = "event"

\* the winner of the event and the other player
WinnerName(call) == Val(Val(call).event.event).winner

LoserName(call) == IF WinnerName(call) = "alpha" THEN "beta" ELSE "alpha"

\* what feature extraction makes of the record for the player: "win", "loss" or "none"
VerdictFor(call, name) ==
  IF ~Has((IF name = "alpha" THEN Val(call).alpha ELSE Val(call).beta).view) THEN "none"
  ELSE IF Val((IF name = "alpha" THEN Val(call).alpha ELSE Val(call).beta).view).isWin
  THEN "win" ELSE "loss"

\* the player of the record with the name
ListedAs(call, name) ==
  IF name = "alpha" THEN Val(call).match.players[1] ELSE Val(call).match.players[2]

\* the rating change the record lists for the player
ListedChange(call, name) ==
  IF name = "alpha" THEN Val(call).match.changes[1].change
  ELSE Val(call).match.changes[2].change

\* the winner id of the record is the winner's
WonById(call) ==
  /\ Has(Val(call).match.winner)
  /\ ListedAs(call, WinnerName(call)).uuid = Val(call).match.winner

\* C27 as stated: whenever event reconstruction resolves a winner W over L, feature
\* extraction counts a win for W and, if it resolves the match for L at all, a loss for L
C27_Original ==
  HasWinner(last) =>
    /\ VerdictFor(last, WinnerName(last)) = "win"
    /\ VerdictFor(last, LoserName(last)) \in {"loss", "none"}

\* C27, amended: when the winner is resolved by the explicit winner id, feature extraction
\* counts a win for W and a loss for L, or nothing for an L listed without uuid.  When it is
\* resolved by the rating deltas and the record has no winner id, feature extraction counts
\* a win for W, and for L what the sign of L's own delta says: a loss if negative, nothing
\* if zero, a win if positive.  When it is resolved by the rating deltas and the record has
\* a winner id that is neither player's, feature extraction counts a loss for both.
C27_RulesAgreeById ==
  HasWinner(last) =>
    IF WonById(last)
    THEN /\ VerdictFor(last, WinnerName(last)) = "win"
         /\ VerdictFor(last, LoserName(last))
              = IF Has(ListedAs(last, LoserName(last)).uuid) THEN "loss" ELSE "none"
    ELSE /\ Has(ListedChange(last, WinnerName(last)))
         /\ Has(ListedChange(last, LoserName(last)))
         /\ Val(ListedChange(last, WinnerName(last))) > 0
         /\ Val(ListedChange(last, WinnerName(last))) > Val(ListedChange(last, LoserName(last)))
         /\ IF Has(Val(last).match.winner)
            THEN /\ VerdictFor(last, WinnerName(last)) = "loss"
                 /\ VerdictFor(last, LoserName(last)) = "loss"
            ELSE /\ VerdictFor(last, WinnerName(last)) = "win"
                 /\ VerdictFor(last, LoserName(last))
                      = IF Val(ListedChange(last, LoserName(last))) < 0 THEN "loss"
                        ELSE IF Val(ListedChange(last, LoserName(last))) = 0 THEN "none"
                        ELSE "win"

\* a record without winner id on which both players gained rating, Alpha more than Beta:
\* the backtest resolves Alpha over Beta, feature extraction counts a win for both
C27_Witness ==
  /\ HasWinner(last)
  /\ ~Has(Val(last).match.winner)
  /\ WinnerName(last) = "alpha"
  /\ ListedChange(last, "alpha") = Some(10)
  /\ ListedChange(last, "beta") = Some(3)
  /\ VerdictFor(last, "alpha") = "win"
  /\ VerdictFor(last, "beta") = "win"

(***************************************************************************)
(* The range of the reported probability: predictOutcome over artifacts     *)
(* whose own probability leaves [0.05, 0.95] and over lopsided inputs.      *)
(***************************************************************************)
\* an artifact of one large weight: a win-rate lead of 0.15 scores 6.0
FileSharp ==
  [ FileValid EXCEPT
      !.intercept = Some(0),
      !.features = << [str |-> TRUE, text |-> "winrate_delta"] >>,
      !.weights = ("winrate_delta" :> Some(400)) ]

\* a player who won every match of the window, and one who won none
StatsUnbeaten ==
  [ StatsStrong EXCEPT !.winRate = 20, !.recencyWinRate = Some(20),
                       !.streak = [current |-> 10, best |-> 10] ]

StatsWinless ==
  [ StatsWeak EXCEPT !.winRate = 0, !.recencyWinRate = Some(0),
                     !.streak = [current |-> 0, best |-> 0] ]

ClampStats == {StatsStrong, StatsWeak, makeStats, StatsUnbeaten, StatsWinless}

ClampInputs ==
  { MakeInput(Some(a), Some(b), None, anchor) :
      a \in ClampStats, b \in ClampStats, anchor \in {None, Some(Anchor)} }
    \cup { MakeInput(None, Some(StatsStrong), None, Some(Anchor)) }

ClampFiles == {FileValid, FileValidCalibrated, FileSharp}

ClampInstall ==
  /\ ~Has(last)
  /\ \E file \in ClampFiles : WriteFile(DEFAULT_MODEL_PATH, file)

ClampPredict ==
  /\ ~Has(last)
  /\ \E input \in ClampInputs : PredictOutcome(input)

NextClamp == ClampInstall \/ ClampPredict

SpecClamp == Init /\ [][NextClamp]_vars

\* what the scorer predictOutcome took computes for the input of the call, before the engine
\* touches it
ScorerProbabilityA(call) ==
  probabilityForA(Val(call).stored, Val(Val(call).input.playerA), Val(Val(call).input.playerB))

\* C29: the probabilityA reported by predictOutcome lies in [0.05, 0.95] whether the trained
\* model or the heuristic scored, it is the scorer's probability clamped to that range, and
\* the reported winner probability lies in [0.5, 0.95]
C29_ReportedProbabilityClamped ==
  (HasOutcome(last) /\ Val(last).fn = "predictOutcome") =>
    /\ Outcome(last).probabilityA >= ProbScale \div 20
    /\ Outcome(last).probabilityA <= (ProbScale * 19) \div 20
    /\ Outcome(last).probabilityA
         = clamp(ScorerProbabilityA(last), ProbScale \div 20, (ProbScale * 19) \div 20)
    /\ 2 * Outcome(last).probability >= ProbScale
    /\ Outcome(last).probability <= (ProbScale * 19) \div 20

\* the trained model scored and its own probability is above 0.95: 0.95 is reported
C29_Witness ==
  /\ HasOutcome(last)
  /\ Val(last).fn = "predictOutcome"
  /\ Val(last).scorer = "trained"
  /\ ScorerProbabilityA(last) > (ProbScale * 19) \div 20
  /\ Outcome(last).probabilityA = (ProbScale * 19) \div 20
  /\ Outcome(last).probability = (ProbScale * 19) \div 20

(***************************************************************************)
(* bot/commands/predictCommand.ts: PredictCommand.execute, with the         *)
(* resolvers of targetResolver.ts.  A chat context is                       *)
(*   [channel, username, ownerLinked, ownerSummary, senderLinked,           *)
(*    senderSummary]:                                                       *)
(* the linked Minecraft name of each handle (None or Some(name)) and what   *)
(* getPlayerSummary does for the handle: "found", "notFound" (404, null) or *)
(* "error" (any other failure, rethrown by api.ts).  The outcome of a       *)
(* history fetch is [kind |-> "matches"], [kind |-> "error"] or a           *)
(* RateLimitError.  A reply is [text, seconds].                             *)
(***************************************************************************)
DEFAULT_MATCHES == 10

MAX_MATCHES == 50

FETCH_BUFFER == 5

\* Number(arg) of the tokens that consist of digits
DigitTokens == "5" :> 5 @@ "0" :> 0 @@ "99" :> 99

\* value.toLowerCase() === 'me' on the tokens the model draws
IsMe(token) == token \in {"me", "ME"}

\* a RateLimitError with its optional retryAfterMs
RateLimitError(retryAfterMs) == [kind |-> "rateLimit", retryAfterMs |-> retryAfterMs]

Reply(text, seconds) == [text |-> text, seconds |-> seconds]

\* resolveChannelOwnerTarget: [rejects, name]
resolveChannelOwnerTarget(ctx) ==
  IF ctx.channel = "" THEN [rejects |-> FALSE, name |-> None]
  ELSE IF Has(ctx.ownerLinked) THEN [rejects |-> FALSE, name |-> ctx.ownerLinked]
  ELSE IF ctx.ownerSummary = "error" THEN [rejects |-> TRUE, name |-> None]
  ELSE IF ctx.ownerSummary = "found" THEN [rejects |-> FALSE, name |-> Some(ctx.channel)]
  ELSE [rejects |-> FALSE, name |-> None]

\* resolveSenderTarget: [rejects, name]
resolveSenderTarget(ctx) ==
  IF ctx.username = "" THEN [rejects |-> FALSE, name |-> None]
  ELSE IF Has(ctx.senderLinked) THEN [rejects |-> FALSE, name |-> ctx.senderLinked]
  ELSE IF ctx.senderSummary = "error" THEN [rejects |-> TRUE, name |-> None]
  ELSE IF ctx.senderSummary = "found" THEN [rejects |-> FALSE, name |-> Some(ctx.username)]
  ELSE [rejects |-> FALSE, name |-> None]

\* resolvePlayer(ctx, raw, fallback); raw is None (undefined) or Some(token)
resolvePlayer(ctx, raw, fallback) ==
  IF Has(raw) /\ IsMe(Val(raw)) THEN resolveSenderTarget(ctx)
  ELSE IF Has(raw) /\ Val(raw) # "" THEN [rejects |-> FALSE, name |-> raw]
  ELSE IF fallback = "owner" THEN resolveChannelOwnerTarget(ctx)
  ELSE resolveSenderTarget(ctx)

RECURSIVE ParseTokens(_, _, _, _)
\* the loop of parseArgs over args: the last number is the match count, the rest are names
ParseTokens(args, i, matchCount, nameTokens) ==
  IF i > Len(args) THEN [matchCount |-> matchCount, nameTokens |-> nameTokens]
  ELSE IF args[i] \in DOMAIN DigitTokens
  THEN ParseTokens(args, i + 1, clamp(DigitTokens[args[i]], 1, MAX_MATCHES), nameTokens)
  ELSE IF args[i] # ""
  THEN ParseTokens(args, i + 1, matchCount, Append(nameTokens, args[i]))
  ELSE ParseTokens(args, i + 1, matchCount, nameTokens)

\* the raw names parseArgs hands to resolvePlayer for playerA and playerB
RawPlayers(nameTokens) ==
  IF Len(nameTokens) >= 2 THEN <<Some(nameTokens[1]), Some(nameTokens[2])>>
  ELSE IF Len(nameTokens) = 1 THEN <<None, Some(nameTokens[1])>>
  ELSE <<None, None>>

\* parseArgs: [rejects, ok, message, playerA, playerB, matchCount]
parseArgs(ctx, args) ==
  LET tokens == ParseTokens(args, 1, DEFAULT_MATCHES, <<>>)
      raw == RawPlayers(tokens.nameTokens)
      playerA == resolvePlayer(ctx, raw[1], "owner")
      playerB == resolvePlayer(ctx, raw[2], "sender")
      answer(rejects, ok, message) ==
        [ rejects |-> rejects, ok |-> ok, message |-> message, playerA |-> playerA.name,
          playerB |-> playerB.name, matchCount |-> tokens.matchCount ]
  IN  IF playerA.rejects \/ playerB.rejects THEN answer(TRUE, FALSE, "")
      ELSE IF ~Has(playerA.name) THEN answer(FALSE, FALSE, "OWNER_LINK_TOOLTIP")
      ELSE IF ~Has(playerB.name) THEN answer(FALSE, FALSE, "SELF_LINK_TOOLTIP")
      ELSE IF normalizeName(Val(playerA.name)) = normalizeName(Val(playerB.name))
      THEN answer(FALSE, FALSE, "Need two different players")
      ELSE answer(FALSE, TRUE, "")

\* a fetch that rejected
Rejected(fetch) == fetch.kind # "matches"

\* what await Promise.all([fetch of playerA, fetch of playerB]) throws: the rejection that
\* comes first; first is 1 or 2, the fetch that settles first
CaughtBy(fetchOne, fetchTwo, first) ==
  LET early == IF first = 1 THEN fetchOne ELSE fetchTwo
      late == IF first = 1 THEN fetchTwo ELSE fetchOne
  IN  IF Rejected(early) THEN Some(early)
      ELSE IF Rejected(late) THEN Some(late)
      ELSE None

\* the wait rounded down
RetrySecondsFloor(err) ==
  IF Has(err.retryAfterMs) /\ Val(err.retryAfterMs) # 0
  THEN Some(Val(err.retryAfterMs) \div 1000)
  ELSE None

\* err.retryAfterMs ? Math.ceil(err.retryAfterMs / 1000) : null
RetrySeconds(err) ==
  IF Has(err.retryAfterMs) /\ Val(err.retryAfterMs) # 0
  THEN Some((Val(err.retryAfterMs) + 999) \div 1000)
  ELSE None

\* the reply of the catch block
CatchReply(err) ==
  IF err.kind = "rateLimit"
  THEN IF Has(RetrySeconds(err)) /\ Val(RetrySeconds(err)) # 0
       THEN Reply("Rate limited: wait", RetrySeconds(err))
       ELSE Reply("Rate limited: later", None)
  ELSE Reply("Could not fetch data", None)

\* the try block after the fetches resolved; featuresOne and featuresTwo are what
\* deps.computeFeatures does for playerA and playerB ("stats", "null" or "throws"),
\* outcome what deps.predict returns ("outcome" or "null"): [reply, computes, predicts]
AfterFetches(featuresOne, featuresTwo, outcome) ==
  IF featuresOne = "throws"
  THEN [reply |-> Reply("Could not fetch data", None), computes |-> 1, predicts |-> 0]
  ELSE IF featuresTwo = "throws"
  THEN [reply |-> Reply("Could not fetch data", None), computes |-> 2, predicts |-> 0]
  ELSE IF featuresOne = "null" \/ featuresTwo = "null"
  THEN [reply |-> Reply("Not enough recent ranked data", None), computes |-> 2, predicts |-> 0]
  ELSE IF outcome = "null"
  THEN [reply |-> Reply("Could not compute a prediction", None), computes |-> 2, predicts |-> 1]
  ELSE [reply |-> Reply("Predicted", None), computes |-> 2, predicts |-> 1]

\* execute(ctx, args): whether it rejects, the replies it sends, the fetches it starts, and
\* how often it calls deps.computeFeatures and deps.predict
execute(ctx, args, fetchOne, fetchTwo, first, featuresOne, featuresTwo, outcome) ==
  LET parsed == parseArgs(ctx, args)
      caught == CaughtBy(fetchOne, fetchTwo, first)
      done == AfterFetches(featuresOne, featuresTwo, outcome)
      result(rejects, replies, fetched, computes, predicts) ==
        [ rejects |-> rejects, replies |-> replies, parsed |-> parsed,
          fetches |-> IF fetched
                      THEN << [player |-> Val(parsed.playerA),
                               limit |-> parsed.matchCount + FETCH_BUFFER],
                              [player |-> Val(parsed.playerB),
                               limit |-> parsed.matchCount + FETCH_BUFFER] >>
                      ELSE <<>>,
          caught |-> IF fetched THEN caught ELSE None,
          computes |-> computes, predicts |-> predicts ]
  IN  IF parsed.rejects THEN result(TRUE, <<>>, FALSE, 0, 0)
      ELSE IF ~parsed.ok THEN result(FALSE, <<Reply(parsed.message, None)>>, FALSE, 0, 0)
      ELSE IF Has(caught) THEN result(FALSE, <<CatchReply(Val(caught))>>, TRUE, 0, 0)
      ELSE result(FALSE, <<done.reply>>, TRUE, done.computes, done.predicts)

(***************************************************************************)
(* The command on the chat contexts, arguments and collaborator outcomes    *)
(* the model draws.                                                         *)
(***************************************************************************)
\* what a handle resolves to: a linked name, its own name, nothing, or a failed lookup
Contexts ==
  { [ channel |-> "gamma", username |-> "beta", ownerLinked |-> ownerLinked,
      ownerSummary |-> ownerSummary, senderLinked |-> senderLinked,
      senderSummary |-> senderSummary ] :
      ownerLinked \in {None, Some("Alpha")}, ownerSummary \in {"found", "notFound", "error"},
      senderLinked \in {None, Some("ALPHA")}, senderSummary \in {"found", "notFound", "error"} }

CommandArgs ==
  { <<>>, <<"Beta">>, <<"Alpha", "Beta">>, <<"Alpha", "ALPHA">>, <<"me", "Beta", "5">>,
    <<"99", "Alpha", "me">>, <<"", "Beta", "0">> }

\* retryAfterMs of a rate-limit failure: absent, zero, a second and a half, ten seconds
RetryHints == {None, Some(0), Some(1500), Some(10000)}

FetchOutcomes ==
  {[kind |-> "matches"], [kind |-> "error"]} \cup {RateLimitError(hint) : hint \in RetryHints}

FeatureOutcomes == {"stats", "null", "throws"}

\* +predict args in the chat of ctx
Execute(ctx, args, fetchOne, fetchTwo, first, featuresOne, featuresTwo, outcome) ==
  /\ prev' = last
  /\ last' = Some([ fn |-> "execute", ctx |-> ctx, args |-> args,
                    fetchOne |-> fetchOne, fetchTwo |-> fetchTwo, first |-> first,
                    result |-> execute(ctx, args, fetchOne, fetchTwo, first,
                                       featuresOne, featuresTwo, outcome) ])
  /\ UNCHANGED <<storeVars, now>>

\* a command whose fetches both resolve
CommandFetched ==
  /\ ~Has(last)
  /\ \E ctx \in Contexts, args \in CommandArgs, featuresOne \in FeatureOutcomes,
        featuresTwo \in FeatureOutcomes, outcome \in {"outcome", "null"} :
       Execute(ctx, args, [kind |-> "matches"], [kind |-> "matches"], 1,
               featuresOne, featuresTwo, outcome)

\* a command of which a fetch may reject
CommandFailing ==
  /\ ~Has(last)
  /\ \E ctx \in Contexts, args \in CommandArgs, fetchOne \in FetchOutcomes,
        fetchTwo \in FetchOutcomes, first \in {1, 2} :
       Execute(ctx, args, fetchOne, fetchTwo, first, "stats", "stats", "outcome")

NextCommand == CommandFetched \/ CommandFailing

SpecCommand == Init /\ [][NextCommand]_vars

(***************************************************************************)
(* Claims about the prediction command.                                     *)
(***************************************************************************)
\* the command ran
IsExecute(call) == Has(call) /\ Val(call).fn = "execute"

\* the command ran and started its two fetches
Fetched(call) == IsExecute(call) /\ Val(call).result.fetches # <<>>

\* the two fetch outcomes of the call
FetchesOf(call) == {Val(call).fetchOne, Val(call).fetchTwo}

\* ceil(ms / 1000): the least number of whole seconds that covers ms
CeilSeconds(ms) == CHOOSE s \in 0..ms : 1000 * s >= ms /\ 1000 * (s - 1) < ms

\* the rate-limit reply for an error as C26 words it: the wait when a duration is present
RateLimitReplyAsStated(err) ==
  IF Has(err.retryAfterMs)
  THEN Reply("Rate limited: wait", Some(CeilSeconds(Val(err.retryAfterMs))))
  ELSE Reply("Rate limited: later", None)

\* C26 as stated: when either fetch fails with RateLimitError the command computes no
\* prediction and sends the rate-limit reply, with the wait of ceil(retryAfterMs / 1000)
\* seconds when the error carries a duration; any other fetch failure gives the generic reply
C26_Original ==
  Fetched(last) =>
    LET limited == {f \in FetchesOf(last) : f.kind = "rateLimit"}
        failed == {f \in FetchesOf(last) : f.kind = "error"}
    IN  /\ limited # {} =>
             /\ Val(last).result.predicts = 0
             /\ \E f \in limited : Val(last).result.replies = <<RateLimitReplyAsStated(f)>>
        /\ (limited = {} /\ failed # {}) =>
             Val(last).result.replies = <<Reply("Could not fetch data", None)>>

\* the rejection Promise.all passes on: of two rejections the one that happens first
FirstRejection(call) ==
  IF Rejected(Val(call).fetchOne) /\ Rejected(Val(call).fetchTwo)
  THEN IF Val(call).first = 1 THEN Val(call).fetchOne ELSE Val(call).fetchTwo
  ELSE IF Rejected(Val(call).fetchOne) THEN Val(call).fetchOne
  ELSE Val(call).fetchTwo

\* C26, amended: when a fetch fails the command computes no features and no prediction and
\* sends one reply, decided by the first rejection: for a RateLimitError the rate-limit reply,
\* with a wait of ceil(retryAfterMs / 1000) seconds when retryAfterMs is present and not zero
\* and without a wait otherwise; for any other error the generic could-not-fetch reply
C26_FirstRejectionDecides ==
  (Fetched(last) /\ \E f \in FetchesOf(last) : Rejected(f)) =>
    LET err == FirstRejection(last)
    IN  /\ Val(last).result.computes = 0
        /\ Val(last).result.predicts = 0
        /\ Val(last).result.replies =
             << IF err.kind = "rateLimit"
                THEN IF Has(err.retryAfterMs) /\ Val(err.retryAfterMs) > 0
                     THEN Reply("Rate limited: wait", Some(CeilSeconds(Val(err.retryAfterMs))))
                     ELSE Reply("Rate limited: later", None)
                ELSE Reply("Could not fetch data", None) >>

\* playerB's fetch is rate-limited with a hint of 1500 ms before playerA's fails otherwise:
\* the reply asks to wait 2 seconds
C26_Witness ==
  /\ Fetched(last)
  /\ Val(last).fetchOne = [kind |-> "error"]
  /\ Val(last).fetchTwo = RateLimitError(Some(1500))
  /\ Val(last).first = 2
  /\ Val(last).result.replies = <<Reply("Rate limited: wait", Some(2))>>
  /\ Val(last).result.predicts = 0

\* C30 as stated: every execute invocation sends exactly one reply, and histories are
\* fetched only after both players have been resolved to two different names
C30_ExactlyOneReply ==
  IsExecute(last) =>
    /\ Len(Val(last).result.replies) = 1
    /\ Fetched(last) =>
         /\ Has(Val(last).result.parsed.playerA)
         /\ Has(Val(last).result.parsed.playerB)
         /\ normalizeName(Val(Val(last).result.parsed.playerA))
              # normalizeName(Val(Val(last).result.parsed.playerB))

====
